---- MODULE Spec2Model ----
(***************************************************************************)
(* Risk-managed signal execution pipeline of TradeAgent.                   *)
(*                                                                         *)
(* Money is counted in whole dollars, confidence in percent, a share       *)
(* quantity in hundredths of a share (the finest grain the code produces,  *)
(* Decimal("0.01")).  A Decimal fraction is the pair <<num, den>>.         *)
(***************************************************************************)
EXTENDS Integers, Sequences, FiniteSets, TLC

(***************************************************************************)
(* Program constants.                                                      *)
(***************************************************************************)
MAX_POSITIONS == 5

\* risk_manager.MAX_POSITION_SIZE_PCT = Decimal("0.10"), in percent
MAX_POSITION_SIZE_PCT == 10

\* risk_manager.DAILY_LOSS_LIMIT_PCT = Decimal("0.03"), in percent
DAILY_LOSS_LIMIT_PCT == 3

\* PositionSizer.MAX_POSITION_SIZE_PCT = Decimal("0.15")
PositionSizer_MAX_POSITION_SIZE_PCT == <<15, 100>>

\* PositionSizer.MIN_POSITION_SIZE_PCT = Decimal("0.03")
PositionSizer_MIN_POSITION_SIZE_PCT == <<3, 100>>

\* PositionSizer.KELLY_FRACTION = Decimal("0.5")
KELLY_FRACTION == <<1, 2>>

\* PositionSizer.DEFAULT_WIN_RATE = Decimal("0.55")
DEFAULT_WIN_RATE == <<55, 100>>

\* PositionSizer.DEFAULT_AVG_WIN = Decimal("0.08")
DEFAULT_AVG_WIN == <<8, 100>>

\* PositionSizer.DEFAULT_AVG_LOSS = Decimal("0.03")
DEFAULT_AVG_LOSS == <<3, 100>>

\* CorrelationMonitor.MAX_SECTOR_ALLOCATION = 0.40, in percent
MAX_SECTOR_ALLOCATION == 40

\* CorrelationMonitor.MIN_POSITIONS_FOR_CORRELATION
MIN_POSITIONS_FOR_CORRELATION == 2

\* the share count check_new_signal assumes for the candidate
ASSUMED_SHARES == 10

defensive_symbols == {"VTI", "VGK", "GLD"}

\* an absent optional value (None)
NONE == -1

(***************************************************************************)
(* Decimal arithmetic on fractions.                                        *)
(***************************************************************************)
Abs(x) == IF x < 0 THEN -x ELSE x

RECURSIVE Gcd(_, _)
Gcd(a, b) == IF b = 0 THEN a ELSE Gcd(b, a % b)

\* a fraction in lowest terms with a positive denominator
Rat(n, d) ==
    LET g == Gcd(Abs(n), Abs(d))
        s == IF d < 0 THEN -1 ELSE 1
    IN  IF g = 0 THEN <<0, 1>> ELSE <<s * (n \div g), s * (d \div g)>>

RatMul(a, b) == Rat(a[1] * b[1], a[2] * b[2])
RatDiv(a, b) == Rat(a[1] * b[2], a[2] * b[1])
RatSub(a, b) == Rat(a[1] * b[2] - b[1] * a[2], a[2] * b[2])
RatLt(a, b) == a[1] * b[2] < b[1] * a[2]
RatMax(a, b) == IF RatLt(a, b) THEN b ELSE a
RatMin(a, b) == IF RatLt(b, a) THEN b ELSE a

\* the whole number at or above x
RatCeil(a) == (a[1] + a[2] - 1) \div a[2]

\* Decimal(int(x)) for x >= 0: truncation to a whole number
RatInt(a) == a[1] \div a[2]

\* x.quantize(Decimal("0.01")) for x >= 0, in hundredths (ROUND_HALF_EVEN)
Quantize01(a) ==
    LET n == 100 * a[1]
        q == n \div a[2]
        r == n % a[2]
    IN  IF 2 * r > a[2] THEN q + 1
        ELSE IF 2 * r < a[2] THEN q
        ELSE IF q % 2 = 0 THEN q ELSE q + 1

(***************************************************************************)
(* PositionSizer (src/risk/position_sizer.py), default instance.           *)
(***************************************************************************)
\* self.win_rate of get_position_sizer()
win_rate == DEFAULT_WIN_RATE

\* self.win_loss_ratio of get_position_sizer()
win_loss_ratio ==
    IF DEFAULT_AVG_LOSS[1] > 0 THEN RatDiv(DEFAULT_AVG_WIN, DEFAULT_AVG_LOSS)
    ELSE <<2, 1>>

\* confidence is a percentage; the result is the half-Kelly fraction
calculate_kelly_fraction(confidence, stop_loss_pct, take_profit_pct) ==
    LET p == RatMul(Rat(confidence, 100), win_rate)
        q == RatSub(<<1, 1>>, p)
        b == IF stop_loss_pct[1] > 0 THEN RatDiv(take_profit_pct, stop_loss_pct)
             ELSE win_loss_ratio
        numerator == RatSub(RatMul(p, b), q)
        kelly == IF b[1] > 0 THEN RatDiv(numerator, b) ELSE <<0, 1>>
        kelly_adjusted == RatMul(kelly, KELLY_FRACTION)
    IN  RatMax(kelly_adjusted, <<0, 1>>)

\* the dollar value to invest, as a fraction
PositionSizer_calculate_position_size(signal, portfolio) ==
    LET entry_price == signal.entry_price
        \* `signal.stop_loss or ...`: None and zero both take the default
        stop_loss == IF signal.stop_loss > 0 THEN Rat(signal.stop_loss, 1)
                     ELSE Rat(entry_price * 97, 100)
        take_profit == IF signal.take_profit > 0 THEN Rat(signal.take_profit, 1)
                       ELSE Rat(entry_price * 108, 100)
        sl_diff == RatSub(Rat(entry_price, 1), stop_loss)
        tp_diff == RatSub(take_profit, Rat(entry_price, 1))
        stop_loss_pct == RatDiv(<<Abs(sl_diff[1]), sl_diff[2]>>, Rat(entry_price, 1))
        take_profit_pct == RatDiv(<<Abs(tp_diff[1]), tp_diff[2]>>, Rat(entry_price, 1))
        kelly_fraction ==
            calculate_kelly_fraction(signal.confidence, stop_loss_pct, take_profit_pct)
        position_size_pct ==
            RatMin(RatMax(kelly_fraction, PositionSizer_MIN_POSITION_SIZE_PCT),
                   PositionSizer_MAX_POSITION_SIZE_PCT)
        position_value == RatMul(Rat(portfolio.portfolio_value, 1), position_size_pct)
        max_affordable == Rat(portfolio.cash * 95, 100)
    IN  IF RatLt(max_affordable, position_value) THEN max_affordable
        ELSE position_value

\* whole shares, at least one
calculate_quantity(signal, portfolio) ==
    LET position_value == PositionSizer_calculate_position_size(signal, portfolio)
        quantity == RatInt(RatDiv(position_value, Rat(signal.entry_price, 1)))
    IN  IF quantity < 1 THEN 1 ELSE quantity

(***************************************************************************)
(* risk_manager.calculate_position_size: the quantity in hundredths of a   *)
(* share.                                                                  *)
(***************************************************************************)
calculate_position_size(signal, portfolio) ==
    IF signal.strategy = "defensive" /\ signal.target_value # NONE
    THEN LET current == IF signal.current_value > 0 THEN signal.current_value ELSE 0
             target_dollar_amount == Abs(signal.target_value - current)
         IN  Quantize01(Rat(target_dollar_amount, signal.entry_price))
    ELSE 100 * calculate_quantity(signal, portfolio)

(***************************************************************************)
(* Sizing of one signal against one portfolio snapshot.                    *)
(***************************************************************************)
VARIABLES sz_signal, sz_portfolio, sz_qty

sz_vars == <<sz_signal, sz_portfolio, sz_qty>>

EntryPrices == {100, 200, 500000}
Confidences == {0, 60, 75, 90, 100}
StopLossPcts == {0, 3, 5}
TakeProfitPcts == {0, 8, 15}
PortfolioValues == {1000, 10000}
CashValues == {0, 500, 5000}
BuyingPowers == {0, 500, 5000}

Portfolios ==
    {pf \in [portfolio_value : PortfolioValues, cash : CashValues,
             buying_power : BuyingPowers] : pf.cash <= pf.portfolio_value}

\* a BUY signal as the momentum scanner and the news strategy build it
EntrySignal(ticker, entry_price, sl, tp, confidence, strategy) ==
    [ticker |-> ticker, action |-> "BUY", entry_price |-> entry_price,
     stop_loss |-> IF sl = 0 THEN 0 ELSE (entry_price * (100 - sl)) \div 100,
     take_profit |-> IF tp = 0 THEN 0 ELSE (entry_price * (100 + tp)) \div 100,
     confidence |-> confidence, strategy |-> strategy,
     target_value |-> NONE, current_value |-> NONE]

\* a rebalancing signal as calculate_rebalancing_orders builds it
DefensiveSignal(ticker, action, entry_price, target_value, current_value) ==
    [ticker |-> ticker, action |-> action, entry_price |-> entry_price,
     stop_loss |-> 0, take_profit |-> 0, confidence |-> 100,
     strategy |-> "defensive",
     target_value |-> target_value, current_value |-> current_value]

SizeSignals ==
    {EntrySignal("AAPL", e, sl, tp, c, st) :
        e \in EntryPrices, sl \in StopLossPcts, tp \in TakeProfitPcts,
        c \in Confidences, st \in {"momentum", "news_sentiment"}}
    \cup
    {DefensiveSignal("VTI", IF t > c THEN "BUY" ELSE "SELL", e, t, c) :
        e \in {1, 200}, t \in {150, 1500}, c \in {0, 1000, 2600}}

IdleSize ==
    /\ sz_signal = NONE
    /\ sz_portfolio = NONE
    /\ sz_qty = NONE

InitSize ==
    /\ sz_signal \in SizeSignals
    /\ sz_portfolio \in Portfolios
    /\ sz_qty = NONE

\* qty = calculate_position_size(signal, portfolio)
SizeCall ==
    /\ sz_qty = NONE
    /\ sz_qty' = calculate_position_size(sz_signal, sz_portfolio)
    /\ UNCHANGED <<sz_signal, sz_portfolio>>

(***************************************************************************)
(* Circuit breaker (risk_manager.check_daily_loss_limit).  Amounts are in  *)
(* cents here, so that -299.99 on 10000.00 is an input.                    *)
(***************************************************************************)
VARIABLES cb_pnl, cb_pv, cb_result, cb_prev, cb_calls

cb_vars == <<cb_pnl, cb_pv, cb_result, cb_prev, cb_calls>>

\* fractional digits kept of a Decimal quotient
DecimalPlaces == 8

\* calls of the breaker in one behaviour
MaxCalls == 2

RECURSIVE Pow10(_)
Pow10(k) == IF k = 0 THEN 1 ELSE 10 * Pow10(k - 1)

\* <<quotient scaled by 10^k, remainder>> of a / b by long division, a >= 0 < b
RECURSIVE LongDiv(_, _, _)
LongDiv(a, b, k) ==
    IF k = 0 THEN <<a \div b, a % b>>
    ELSE LET prev == LongDiv(a, b, k - 1)
         IN  <<prev[1] * 10 + (prev[2] * 10) \div b, (prev[2] * 10) % b>>

\* Decimal a / b (b > 0) in units of 10^-DecimalPlaces, ROUND_HALF_EVEN
DecimalDiv(a, b) ==
    LET qr == LongDiv(Abs(a), b, DecimalPlaces)
        q == qr[1]
        r == qr[2]
        rounded == IF 2 * r > b THEN q + 1
                   ELSE IF 2 * r < b THEN q
                   ELSE IF q % 2 = 0 THEN q ELSE q + 1
    IN  IF a < 0 THEN -rounded ELSE rounded

check_daily_loss_limit_strict(daily_pnl, portfolio_value) ==
    IF portfolio_value = 0 THEN "raise"
    ELSE LET daily_loss_pct == DecimalDiv(daily_pnl, portfolio_value)
         IN  IF daily_loss_pct < -(DAILY_LOSS_LIMIT_PCT * Pow10(DecimalPlaces - 2))
             THEN "True" ELSE "False"

\* "True" / "False", or "raise" for the division by a zero portfolio value
check_daily_loss_limit(daily_pnl, portfolio_value) ==
    IF portfolio_value = 0 THEN "raise"
    ELSE LET daily_loss_pct == DecimalDiv(daily_pnl, portfolio_value)
         IN  IF daily_loss_pct <= -(DAILY_LOSS_LIMIT_PCT * Pow10(DecimalPlaces - 2))
             THEN "True" ELSE "False"

DailyPnls ==
    {-100000, -50000, -30001, -30000, -29999, -10001, -10000, -9999,
     -3001, -3000, -2999, -1, 0, 1, 3000, 30000, 50000}

BreakerPortfolioValues == {0, 100000, 333333, 999967, 1000000}

IdleBreaker ==
    /\ cb_pnl = NONE
    /\ cb_pv = NONE
    /\ cb_result = "none"
    /\ cb_prev = "none"
    /\ cb_calls = 0

InitBreaker == IdleBreaker

\* one call check_daily_loss_limit(daily_pnl, portfolio_value)
BreakerCall ==
    /\ cb_calls < MaxCalls
    /\ \E pnl \in DailyPnls, pv \in BreakerPortfolioValues :
          /\ cb_pnl' = pnl
          /\ cb_pv' = pv
          /\ cb_result' = check_daily_loss_limit(pnl, pv)
    /\ cb_prev' = cb_result
    /\ cb_calls' = cb_calls + 1

(***************************************************************************)
(* CorrelationMonitor (src/risk/correlation_monitor.py).                   *)
(***************************************************************************)
\* SECTOR_MAP.get(ticker, "Unknown")
SECTOR_MAP(ticker) ==
    CASE ticker \in {"AAPL", "MSFT", "GOOGL", "META", "NVDA", "AMD", "AVGO",
                     "NFLX", "QQQ"} -> "Technology"
      [] ticker \in {"JPM", "BAC", "WFC", "GS", "MS"} -> "Finance"
      [] ticker \in {"XOM", "CVX", "COP"} -> "Energy"
      [] ticker \in {"LLY", "JNJ", "PFE", "UNH"} -> "Healthcare"
      [] ticker \in {"TSLA", "AMZN", "KO", "PEP", "MCD"} -> "Consumer"
      [] ticker \in {"VTI", "SPY"} -> "Broad Market"
      [] ticker = "VGK" -> "International"
      [] ticker = "GLD" -> "Commodities"
      [] OTHER -> "Unknown"

\* The (approved, reason) pair of an approval: the reason is None.  A reason
\* is <<kind, name, percentage in tenths of a percent>>.
Approved == <<TRUE, <<"none", "", 0>> >>

\* sum of market_value over the positions of one sector
RECURSIVE SectorValue(_, _)
SectorValue(current_positions, sector) ==
    IF current_positions = <<>> THEN 0
    ELSE LET pos == Head(current_positions)
         IN  (IF SECTOR_MAP(pos.symbol) = sector THEN pos.market_value ELSE 0)
             + SectorValue(Tail(current_positions), sector)

\* the keys of sector_values in insertion order
RECURSIVE SectorKeys(_, _)
SectorKeys(current_positions, seen) ==
    IF current_positions = <<>> THEN seen
    ELSE LET sector == SECTOR_MAP(Head(current_positions).symbol)
         IN  SectorKeys(Tail(current_positions),
                        IF \E i \in 1..Len(seen) : seen[i] = sector THEN seen
                        ELSE Append(seen, sector))

\* f"{allocation:.1%}": value / portfolio_value in tenths of a percent
AllocationTenths(value, portfolio_value) ==
    LET n == value * 1000
        q == n \div portfolio_value
        r == n % portfolio_value
    IN  IF 2 * r > portfolio_value THEN q + 1
        ELSE IF 2 * r < portfolio_value THEN q
        ELSE IF q % 2 = 0 THEN q ELSE q + 1

\* the sector check that looks at the sector of the candidate only
_check_new_sector_only(new_ticker, new_position_value, current_positions, portfolio_value) ==
    LET new_sector == SECTOR_MAP(new_ticker)
        value == SectorValue(current_positions, new_sector) + new_position_value
    IN  IF portfolio_value > 0 /\ value * 100 > MAX_SECTOR_ALLOCATION * portfolio_value
        THEN <<FALSE, <<"sector", new_sector, AllocationTenths(value, portfolio_value)>> >>
        ELSE Approved

_check_sector_concentration(new_ticker, new_position_value, current_positions, portfolio_value) ==
    LET new_sector == SECTOR_MAP(new_ticker)
        keys == SectorKeys(current_positions, <<>>)
        sectors == IF \E i \in 1..Len(keys) : keys[i] = new_sector THEN keys
                   ELSE Append(keys, new_sector)
        value(sector) == SectorValue(current_positions, sector)
                         + (IF sector = new_sector THEN new_position_value ELSE 0)
        \* allocation > MAX_SECTOR_ALLOCATION, allocation 0 for an empty portfolio
        over(sector) == /\ portfolio_value > 0
                        /\ value(sector) * 100 > MAX_SECTOR_ALLOCATION * portfolio_value
        hits == {i \in 1..Len(sectors) : over(sectors[i])}
    IN  IF hits = {} THEN Approved
        ELSE LET first == CHOOSE i \in hits : \A j \in hits : i <= j
             IN  <<FALSE, <<"sector", sectors[first],
                            AllocationTenths(value(sectors[first]), portfolio_value)>> >>

\* What _get_price_history gives for the candidate: an exception ("error"),
\* None ("none"), a series of fewer than 30 closes ("short"), or a usable
\* one ("ok").
PriceHistories == {"error", "none", "short", "ok"}

\* What the loop of _check_correlation meets at a held position: an
\* exception, no history, a short history, fewer than 30 overlapping closes
\* (the correlation is None), or a correlation at or below ("low") or above
\* ("high") MAX_CORRELATION in absolute value.
PositionOutcomes == {"error", "none", "short", "nooverlap", "low", "high"}

\* the outcomes of positions that all correlate low, but for the one at
\* index first_high (0 for none)
OutcomesWithHigh(first_high, n) ==
    [i \in 1..n |-> IF i = first_high THEN "high" ELSE "low"]

\* the loop over current_positions from index i on
RECURSIVE CorrelationLoop(_, _, _)
CorrelationLoop(i, existing, current_positions) ==
    IF i > Len(current_positions) THEN Approved
    ELSE IF existing[i] = "error" THEN Approved
    ELSE IF existing[i] = "high"
    THEN <<FALSE, <<"correlation", current_positions[i].symbol, 0>> >>
    ELSE CorrelationLoop(i + 1, existing, current_positions)

\* the correlation check that rejects what it cannot evaluate
_check_correlation_fail_closed(new_prices, existing, current_positions) ==
    IF new_prices # "ok" THEN <<FALSE, <<"correlation", "", 0>> >>
    ELSE CorrelationLoop(1, existing, current_positions)

\* new_prices is what the provider gives for the candidate, existing[i] what
\* the loop meets at current_positions[i]
_check_correlation(new_prices, existing, current_positions) ==
    IF new_prices # "ok" THEN Approved
    ELSE CorrelationLoop(1, existing, current_positions)

check_new_signal(signal, current_positions, portfolio_value, new_prices, existing) ==
    IF Len(current_positions) = 0 THEN Approved
    ELSE LET sector == _check_sector_concentration(
                           signal.ticker, signal.entry_price * ASSUMED_SHARES,
                           current_positions, portfolio_value)
         IN  IF ~sector[1] THEN sector
             ELSE IF Len(current_positions) >= MIN_POSITIONS_FOR_CORRELATION
                  THEN _check_correlation(new_prices, existing, current_positions)
                  ELSE Approved

(***************************************************************************)
(* risk_manager.filter_signals_by_risk.                                    *)
(***************************************************************************)
VARIABLES pc, portfolio, positions, signals, unsorted_signals,
          available_slots, approved_signals, rejected_count, cursor,
          consulted, filtered_signals

filter_vars == <<pc, portfolio, positions, signals, unsorted_signals,
                 available_slots, approved_signals, rejected_count, cursor,
                 consulted, filtered_signals>>

\* the list with x put behind every element whose confidence is >= x's
RECURSIVE InsertByConfidence(_, _)
InsertByConfidence(sorted, x) ==
    IF sorted = <<>> THEN <<x>>
    ELSE IF Head(sorted).confidence >= x.confidence
         THEN <<Head(sorted)>> \o InsertByConfidence(Tail(sorted), x)
         ELSE <<x>> \o sorted

\* the list with x put in front of every element whose confidence is <= x's
RECURSIVE InsertBeforeEqual(_, _)
InsertBeforeEqual(sorted, x) ==
    IF sorted = <<>> THEN <<x>>
    ELSE IF Head(sorted).confidence > x.confidence
         THEN <<Head(sorted)>> \o InsertBeforeEqual(Tail(sorted), x)
         ELSE <<x>> \o sorted

RECURSIVE SortUnstable(_)
SortUnstable(list) ==
    IF list = <<>> THEN <<>>
    ELSE InsertBeforeEqual(SortUnstable(SubSeq(list, 1, Len(list) - 1)),
                           list[Len(list)])

\* signals.sort(key=lambda s: s.confidence, reverse=True): descending, stable
RECURSIVE SortByConfidence(_)
SortByConfidence(list) ==
    IF list = <<>> THEN <<>>
    ELSE InsertByConfidence(SortByConfidence(SubSeq(list, 1, Len(list) - 1)),
                            list[Len(list)])

\* the positions counted when every holding is taken for a defensive one
NoPositions(current_positions) == <<>>

\* momentum_positions
momentum_positions(current_positions) ==
    SelectSeq(current_positions, LAMBDA p : p.symbol \notin defensive_symbols)

\* the slots left when the held positions are not subtracted
SlotsIgnoringHeld(current_positions) == MAX_POSITIONS

\* available_slots = MAX_POSITIONS - len(momentum_positions)
AvailableSlots(current_positions) ==
    MAX_POSITIONS - Len(momentum_positions(current_positions))

\* the test that stops one slot late
SlotsExceeded(approved, slots) == Len(approved) > slots

\* len(approved_signals) >= available_slots
SlotsReached(approved, slots) == Len(approved) >= slots

\* lines 42-62: the position limit, the sort, the slots
FilterStart ==
    /\ pc = "filter"
    /\ unsorted_signals' = signals
    /\ consulted' = <<>>
    /\ rejected_count' = 0
    /\ approved_signals' = <<>>
    /\ cursor' = 1
    /\ IF Len(momentum_positions(positions)) >= MAX_POSITIONS
       THEN /\ filtered_signals' = <<>>
            /\ pc' = "execute"
            /\ UNCHANGED <<signals, available_slots>>
       ELSE /\ signals' = SortByConfidence(signals)
            /\ available_slots' = AvailableSlots(positions)
            /\ pc' = "filter_loop"
            /\ UNCHANGED filtered_signals
    /\ UNCHANGED <<portfolio, positions>>

\* lines 64-79: one iteration of the loop that reaches check_new_signal
FilterStep ==
    /\ pc = "filter_loop"
    /\ cursor <= Len(signals)
    /\ ~SlotsReached(approved_signals, available_slots)
    /\ \E new_prices \in PriceHistories, first_high \in 0..Len(positions) :
          LET signal == signals[cursor]
              result == check_new_signal(signal, positions, portfolio.portfolio_value,
                                         new_prices,
                                         OutcomesWithHigh(first_high, Len(positions)))
          IN  /\ consulted' = Append(consulted, [signal |-> signal, approved |-> result[1]])
              /\ IF result[1]
                 THEN /\ approved_signals' = Append(approved_signals, signal)
                      /\ UNCHANGED rejected_count
                 ELSE /\ rejected_count' = rejected_count + 1
                      /\ UNCHANGED approved_signals
    /\ cursor' = cursor + 1
    /\ UNCHANGED <<pc, portfolio, positions, signals, unsorted_signals,
                   available_slots, filtered_signals>>

\* lines 65-66 and 81-87: the break or the end of the list, and the return
FilterReturn ==
    /\ pc = "filter_loop"
    /\ \/ cursor > Len(signals)
       \/ SlotsReached(approved_signals, available_slots)
    /\ filtered_signals' = approved_signals
    /\ pc' = "execute"
    /\ UNCHANGED <<portfolio, positions, signals, unsorted_signals,
                   available_slots, approved_signals, rejected_count, cursor,
                   consulted>>

(***************************************************************************)
(* Inputs of the filter: what the broker holds and what the scanners emit. *)
(***************************************************************************)
\* signals in one call of the filter
MaxSignals == 3

\* the symbols the broker knows, in the order get_positions lists them
Symbols == <<"VTI", "VGK", "GLD", "AAPL", "MSFT", "NVDA", "JPM", "XOM", "TSLA">>

SymbolSet == {Symbols[i] : i \in 1..Len(Symbols)}

\* the latest close of a symbol
LatestClose(symbol) == IF symbol \in {"AAPL", "VTI"} THEN 200 ELSE 100

\* the market value of the holding the broker starts with
MarketValue(symbol) ==
    CASE symbol = "AAPL" -> 1850
      [] symbol = "MSFT" -> 3900
      [] symbol = "VTI" -> 1500
      [] symbol = "VGK" -> 800
      [] symbol = "GLD" -> 700
      [] OTHER -> 1000

\* the broker's book when it holds the symbols of a set
Holding(held) == [s \in SymbolSet |-> IF s \in held THEN MarketValue(s) ELSE 0]

Position(symbol, market_value) ==
    [symbol |-> symbol, market_value |-> market_value,
     avg_entry_price |-> LatestClose(symbol),
     current_price |-> LatestClose(symbol)]

\* alpaca.get_positions(): the open positions of the broker's book
get_positions(book) ==
    LET all == [i \in 1..Len(Symbols) |-> Position(Symbols[i], book[Symbols[i]])]
    IN  SelectSeq(all, LAMBDA p : p.market_value > 0)

\* the symbols held when the filter is called on its own
FilterHoldable == {"VTI", "AAPL", "MSFT", "JPM", "XOM", "TSLA"}

PositionLists == {get_positions(Holding(held)) : held \in SUBSET FilterHoldable}

\* the tickers both scanners walk, in the order of get_dynamic_watchlist()
Watchlist == <<"AAPL", "NVDA", "JPM">>

\* the confidence of an emitted signal, in percent
ScanConfidences == {60, 90}

\* The list a scanner returns: one BUY signal for every watchlist ticker that
\* met its entry criteria (hits[i] is the confidence, 0 for no signal), in
\* watchlist order.
ScanList(strategy, sl, tp, hits) ==
    LET all == [i \in 1..Len(Watchlist) |->
                   EntrySignal(Watchlist[i], LatestClose(Watchlist[i]), sl, tp,
                               hits[i], strategy)]
    IN  SelectSeq(all, LAMBDA sig : sig.confidence > 0)

ScanHits == [1..Len(Watchlist) -> {0} \cup ScanConfidences]

\* momentum_trading.scan_for_signals: stop 3% below, target 8% above
MomentumScans == {ScanList("momentum", 3, 8, hits) : hits \in ScanHits}

\* NewsSentimentStrategy.scan_for_signals: stop 5% below, target 15% above
NewsScans == {ScanList("news_sentiment", 5, 15, hits) : hits \in ScanHits}

\* momentum_signals after momentum_signals.extend(news_signals)
SignalLists ==
    {list \in {m \o n : m \in MomentumScans, n \in NewsScans} :
        Len(list) <= MaxSignals}

FilterPortfolios == {[portfolio_value |-> 10000, cash |-> 5000, buying_power |-> 5000]}

IdleFilter ==
    /\ pc = "idle"
    /\ portfolio = NONE
    /\ positions = <<>>
    /\ signals = <<>>
    /\ unsorted_signals = <<>>
    /\ available_slots = 0
    /\ approved_signals = <<>>
    /\ rejected_count = 0
    /\ cursor = 0
    /\ consulted = <<>>
    /\ filtered_signals = <<>>

\* a call filter_signals_by_risk(signals, portfolio, current_positions)
InitFilterCall ==
    /\ pc = "filter"
    /\ portfolio \in FilterPortfolios
    /\ positions \in PositionLists
    /\ signals \in SignalLists
    /\ unsorted_signals = <<>>
    /\ available_slots = 0
    /\ approved_signals = <<>>
    /\ rejected_count = 0
    /\ cursor = 0
    /\ consulted = <<>>
    /\ filtered_signals = <<>>


(***************************************************************************)
(* Defensive core (src/strategies/defensive_core.py).                      *)
(***************************************************************************)
\* TARGET_ALLOCATIONS in percent, in the order of the dict
TARGET_ALLOCATIONS == <<[symbol |-> "VTI", target_pct |-> 15],
                        [symbol |-> "VGK", target_pct |-> 8],
                        [symbol |-> "GLD", target_pct |-> 7]>>

\* REBALANCE_DRIFT_THRESHOLD = Decimal("0.05"), in percent
REBALANCE_DRIFT_THRESHOLD == 5

\* the minimum difference in dollars for which an order is created
MIN_REBALANCE_DIFF == 100

\* the price used when no quote can be fetched
FALLBACK_PRICE == 1

\* next((p for p in positions if p.symbol == symbol), None): <<>> for None
FindPosition(current_positions, symbol) ==
    SelectSeq(current_positions, LAMBDA p : p.symbol = symbol)

\* the test that also fires at a drift of exactly the threshold
should_rebalance_at_threshold(first_trading_day, current_positions, pf) ==
    \/ first_trading_day
    \/ \E i \in 1..Len(TARGET_ALLOCATIONS) :
          LET found == FindPosition(current_positions, TARGET_ALLOCATIONS[i].symbol)
              current_value == IF found = <<>> THEN 0 ELSE found[1].market_value
          IN  Abs(current_value * 100 - TARGET_ALLOCATIONS[i].target_pct * pf.portfolio_value)
                  >= REBALANCE_DRIFT_THRESHOLD * pf.portfolio_value

should_rebalance(first_trading_day, current_positions, pf) ==
    \/ first_trading_day
    \/ \E i \in 1..Len(TARGET_ALLOCATIONS) :
          LET found == FindPosition(current_positions, TARGET_ALLOCATIONS[i].symbol)
              current_value == IF found = <<>> THEN 0 ELSE found[1].market_value
          IN  \* abs(current_pct - target_pct) > REBALANCE_DRIFT_THRESHOLD
              Abs(current_value * 100 - TARGET_ALLOCATIONS[i].target_pct * pf.portfolio_value)
                  > REBALANCE_DRIFT_THRESHOLD * pf.portfolio_value

\* the signal of one target allocation, <<>> when the difference is small
RebalancingOrder(alloc, current_positions, pf, quote_ok) ==
    LET target_value == (pf.portfolio_value * alloc.target_pct) \div 100
        found == FindPosition(current_positions, alloc.symbol)
        current_value == IF found = <<>> THEN 0 ELSE found[1].market_value
        diff == target_value - current_value
        current_price == IF found # <<>> THEN found[1].current_price
                         ELSE IF quote_ok THEN LatestClose(alloc.symbol)
                         ELSE FALLBACK_PRICE
    IN  IF Abs(diff) > MIN_REBALANCE_DIFF
        THEN <<DefensiveSignal(alloc.symbol, IF diff > 0 THEN "BUY" ELSE "SELL",
                               current_price, target_value, current_value)>>
        ELSE <<>>

RECURSIVE RebalancingOrders(_, _, _, _)
RebalancingOrders(allocs, current_positions, pf, quote_ok) ==
    IF allocs = <<>> THEN <<>>
    ELSE RebalancingOrder(Head(allocs), current_positions, pf, quote_ok)
         \o RebalancingOrders(Tail(allocs), current_positions, pf, quote_ok)

calculate_rebalancing_orders(current_positions, pf, quote_ok) ==
    RebalancingOrders(TARGET_ALLOCATIONS, current_positions, pf, quote_ok)

(***************************************************************************)
(* Exit rules (src/strategies/momentum_trading.py).  The function reads    *)
(* the module global STRATEGY_PARAMS, which the module never defines: the  *)
(* NameError is caught by its own except clause, which returns             *)
(* (False, None), whatever the quote is.                                   *)
(***************************************************************************)
\* the defaults the module defines under another name
DEFAULT_STRATEGY_PARAMS == [stop_loss_pct |-> 3, take_profit_pct |-> 8]

\* the binding of the global name STRATEGY_PARAMS: there is none
STRATEGY_PARAMS == NONE

\* quote is the price of get_latest_quote, NONE when the call raises;
\* technical_exit is whether the latest bar has RSI > 75 or a negative MACD
\* histogram.  Every exception ends in (False, None).
check_exit_conditions(position, quote, technical_exit) ==
    IF quote = NONE THEN <<FALSE, "none">>
    ELSE IF position.avg_entry_price = 0 THEN <<FALSE, "none">>
    ELSE IF STRATEGY_PARAMS = NONE THEN <<FALSE, "none">>
    ELSE IF (quote - position.avg_entry_price) * 100
                <= (0 - STRATEGY_PARAMS.stop_loss_pct) * position.avg_entry_price
    THEN <<TRUE, "stop_loss">>
    ELSE IF (quote - position.avg_entry_price) * 100
                >= STRATEGY_PARAMS.take_profit_pct * position.avg_entry_price
    THEN <<TRUE, "take_profit">>
    ELSE IF technical_exit THEN <<TRUE, "technical_exit">>
    ELSE <<FALSE, "none">>

(***************************************************************************)
(* The broker (src/mcp_clients/alpaca_client.py).                          *)
(***************************************************************************)
\* round() of a quantity in hundredths to whole shares, half to even
RoundWhole(qty) ==
    LET q == qty \div 100
        r == qty % 100
    IN  100 * (IF r > 50 THEN q + 1
               ELSE IF r < 50 THEN q
               ELSE IF q % 2 = 0 THEN q ELSE q + 1)

\* the order submit_market_order hands to the broker
submit_market_order(symbol, qty, side, stop_loss, take_profit, kind, price) ==
    [symbol |-> symbol,
     qty |-> IF stop_loss > 0 \/ take_profit > 0 THEN RoundWhole(qty) ELSE qty,
     side |-> side, kind |-> kind, price |-> price]

\* the book after an order has filled at the market
Fill(book, order) ==
    LET value == (order.qty * LatestClose(order.symbol)) \div 100
    IN  [book EXCEPT ![order.symbol] =
            IF order.side = "buy" THEN @ + value
            ELSE IF @ > value THEN @ - value ELSE 0]

RECURSIVE FillAll(_, _)
FillAll(book, submitted) ==
    IF submitted = <<>> THEN book
    ELSE FillAll(Fill(book, Head(submitted)), Tail(submitted))

(***************************************************************************)
(* daily_trading_loop (src/main.py).                                       *)
(***************************************************************************)
VARIABLES held, market_open, allow_premarket, daily_pnl, faults,
          rebalance_signals, item, orders, failed, closed, execution_summary,
          status, exit_checks

cycle_vars == <<held, market_open, allow_premarket, daily_pnl, faults,
                rebalance_signals, item, orders, failed, closed,
                execution_summary, status, exit_checks>>

\* failures of collaborators in one cycle
MaxFaults == 1

CycleHoldings ==
    {{}, {"VTI", "VGK", "GLD", "AAPL"}, {"VTI", "AAPL", "JPM", "XOM", "TSLA"},
     {"AAPL", "MSFT", "JPM", "XOM", "TSLA"},
     {"AAPL", "MSFT", "NVDA", "JPM", "XOM", "TSLA"}}

CyclePortfolios ==
    {[portfolio_value |-> 10000, cash |-> 5000, buying_power |-> 5000],
     [portfolio_value |-> 20000, cash |-> 1000, buying_power |-> 1000]}

\* the day's profit or loss when the cycle runs
CycleDailyPnls == {0, -1000}

\* the account states the broker reports: the snapshot and the day's profit
\* or loss that goes with it
CycleAccounts ==
    {acct \in [portfolio : CyclePortfolios, daily_pnl : CycleDailyPnls] :
        acct.daily_pnl < 0 <=> acct.portfolio.cash < 5000}

\* the market states a cycle is started in: the scheduler allows pre-market
\* execution for the scan it runs before the open
CycleMarkets ==
    {m \in [market_open : BOOLEAN, allow_premarket : BOOLEAN] :
        m.allow_premarket => ~m.market_open}

NoSummary ==
    [rebalance_orders |-> 0, momentum_signals |-> 0, orders_executed |-> 0,
     positions_closed |-> 0]

IdleCycle ==
    /\ held = Holding({})
    /\ market_open = FALSE
    /\ allow_premarket = FALSE
    /\ daily_pnl = 0
    /\ faults = 0
    /\ rebalance_signals = <<>>
    /\ item = 0
    /\ orders = <<>>
    /\ failed = <<>>
    /\ closed = {}
    /\ execution_summary = NoSummary
    /\ status = "none"
    /\ exit_checks = <<>>

InitCycle ==
    /\ held \in {Holding(h) : h \in CycleHoldings}
    /\ \E m \in CycleMarkets :
          /\ market_open = m.market_open
          /\ allow_premarket = m.allow_premarket
    /\ daily_pnl = 0
    /\ faults = 0
    /\ rebalance_signals = <<>>
    /\ item = 0
    /\ orders = <<>>
    /\ failed = <<>>
    /\ closed = {}
    /\ execution_summary = NoSummary
    /\ status = "none"
    /\ exit_checks = <<>>
    /\ pc = "market"
    /\ portfolio = NONE
    /\ positions = <<>>
    /\ signals = <<>>
    /\ unsorted_signals = <<>>
    /\ available_slots = 0
    /\ approved_signals = <<>>
    /\ rejected_count = 0
    /\ cursor = 0
    /\ consulted = <<>>
    /\ filtered_signals = <<>>

\* the calls of the two signal producers
ProducerCalls == {"scan_for_signals", "news_sentiment_strategy.scan_for_signals"}

\* the calls that fetch the portfolio snapshot
SnapshotCalls == {"get_account", "get_positions"}

\* the cycle that goes on to the analysis after a failed call
Swallow(call) ==
    /\ faults < MaxFaults
    /\ faults' = faults + 1
    /\ pc' = "analyze"
    /\ status' = call

\* the cycle that starts over after a failed call
Retry(call) ==
    /\ faults < MaxFaults
    /\ faults' = faults + 1
    /\ pc' = "market"
    /\ status' = call

\* lines 296-298: the exception of a failed call reaches the caller
Raise(call) ==
    /\ faults < MaxFaults
    /\ faults' = faults + 1
    /\ pc' = "raised"
    /\ status' = call

\* the test that never skips the cycle
NeverSkip(is_open, premarket) == FALSE

\* line 61: `not market_open and not allow_premarket`
MarketClosed(is_open, premarket) == ~is_open /\ ~premarket

\* lines 58-80
CheckMarketOpen ==
    /\ pc = "market"
    /\ \/ /\ MarketClosed(market_open, allow_premarket)
          /\ status' = "skipped"
          /\ pc' = "done"
          /\ UNCHANGED faults
       \/ /\ ~MarketClosed(market_open, allow_premarket)
          /\ pc' = "portfolio"
          /\ UNCHANGED <<status, faults>>
       \/ Raise("is_market_open")
    /\ UNCHANGED <<exit_checks, held, market_open, allow_premarket, daily_pnl, failed,
                   rebalance_signals, item, orders, closed, execution_summary,
                   portfolio, positions, signals, unsorted_signals,
                   available_slots, approved_signals, rejected_count, cursor,
                   consulted, filtered_signals>>

\* lines 82-104: get_account, get_positions, execution_summary
GetPortfolio ==
    /\ pc = "portfolio"
    /\ \/ /\ \E acct \in CycleAccounts :
                /\ portfolio' = acct.portfolio
                /\ daily_pnl' = acct.daily_pnl
          /\ positions' = get_positions(held)
          /\ execution_summary' = NoSummary
          /\ pc' = "rebalance_check"
          /\ UNCHANGED <<status, faults>>
       \/ /\ \E call \in SnapshotCalls : Raise(call)
          /\ UNCHANGED <<portfolio, positions, execution_summary, daily_pnl>>
    /\ UNCHANGED <<exit_checks, held, market_open, allow_premarket, failed,
                   rebalance_signals, item, orders, closed,
                   signals, unsorted_signals,
                   available_slots, approved_signals, rejected_count, cursor,
                   consulted, filtered_signals>>

\* lines 107-112
CheckRebalance ==
    /\ pc = "rebalance_check"
    /\ \E first_trading_day \in BOOLEAN, quote_ok \in BOOLEAN :
          IF should_rebalance(first_trading_day, positions, portfolio)
          THEN /\ rebalance_signals' =
                      calculate_rebalancing_orders(positions, portfolio, quote_ok)
               /\ execution_summary' =
                      [execution_summary EXCEPT !.rebalance_orders = Len(rebalance_signals')]
               /\ pc' = "rebalance"
          ELSE /\ pc' = "scan_momentum"
               /\ UNCHANGED <<rebalance_signals, execution_summary>>
    /\ item' = 1
    /\ UNCHANGED <<exit_checks, held, market_open, allow_premarket, daily_pnl, failed, faults,
                   orders, closed, status,
                   portfolio, positions, signals, unsorted_signals,
                   available_slots, approved_signals, rejected_count, cursor,
                   consulted, filtered_signals>>

\* the cycle that gives up at the first signal that fails
AbortCycle(loop) == "raised"

\* `except Exception: ... continue` (lines 150-152, 232-234): the loop goes on
AfterItemFailure(loop) == loop

\* The body of the two order loops (lines 115-152 and 187-234): size the
\* signal, submit the order, log the trade, count the order.  A failure of
\* the sizing or of the submission leaves no order; a failure of the logging
\* that follows the submission leaves the order at the broker and skips the
\* count.  Either failure is logged by the handler of the loop body.
SubmitSignal(signal, side, kind) ==
    LET qty == calculate_position_size(signal, portfolio)
        order == submit_market_order(
                     signal.ticker, qty, side,
                     IF kind = "entry" THEN signal.stop_loss ELSE 0,
                     IF kind = "entry" THEN signal.take_profit ELSE 0,
                     kind, signal.entry_price)
    IN  \/ /\ orders' = Append(orders, order)
           /\ execution_summary' =
                  [execution_summary EXCEPT !.orders_executed = @ + 1]
           /\ pc' = pc
           /\ UNCHANGED <<faults, failed>>
        \/ /\ faults < MaxFaults
           /\ faults' = faults + 1
           /\ failed' = Append(failed, [kind |-> kind, ticker |-> signal.ticker,
                                        call |-> "submit_market_order"])
           /\ pc' = AfterItemFailure(pc)
           /\ UNCHANGED <<orders, execution_summary>>
        \/ /\ faults < MaxFaults
           /\ faults' = faults + 1
           /\ orders' = Append(orders, order)
           /\ failed' = Append(failed, [kind |-> kind, ticker |-> signal.ticker,
                                        call |-> "log_trade"])
           /\ pc' = AfterItemFailure(pc)
           /\ UNCHANGED execution_summary

\* lines 114-152: one rebalance signal
RebalanceStep ==
    /\ pc = "rebalance"
    /\ item <= Len(rebalance_signals)
    /\ SubmitSignal(rebalance_signals[item],
                    IF rebalance_signals[item].action = "BUY" THEN "buy" ELSE "sell",
                    "rebalance")
    /\ item' = item + 1
    /\ UNCHANGED <<exit_checks, held, market_open, allow_premarket, daily_pnl,
                   rebalance_signals, closed, status,
                   portfolio, positions, signals, unsorted_signals,
                   available_slots, approved_signals, rejected_count, cursor,
                   consulted, filtered_signals>>

\* the end of the rebalance loop
RebalanceDone ==
    /\ pc = "rebalance"
    /\ item > Len(rebalance_signals)
    /\ pc' = "scan_momentum"
    /\ item' = 1
    /\ UNCHANGED <<exit_checks, held, market_open, allow_premarket, daily_pnl, failed, faults,
                   rebalance_signals, orders, closed, execution_summary, status,
                   portfolio, positions, signals, unsorted_signals,
                   available_slots, approved_signals, rejected_count, cursor,
                   consulted, filtered_signals>>

\* the signals a scanner emits in a cycle
CycleHits == [1..Len(Watchlist) -> {0, 75}]

\* lines 154-159: momentum scan
ScanMomentum ==
    /\ pc = "scan_momentum"
    /\ \/ /\ \E hits \in CycleHits : signals' = ScanList("momentum", 3, 8, hits)
          /\ execution_summary' =
                 [execution_summary EXCEPT !.momentum_signals = Len(signals')]
          /\ pc' = "scan_news"
          /\ UNCHANGED <<status, faults>>
       \/ /\ Raise("scan_for_signals")
          /\ UNCHANGED <<signals, execution_summary>>
    /\ UNCHANGED <<exit_checks, held, market_open, allow_premarket, daily_pnl, failed,
                   rebalance_signals, item, orders, closed,
                   portfolio, positions, unsorted_signals,
                   available_slots, approved_signals, rejected_count, cursor,
                   consulted, filtered_signals>>

\* lines 165-178: news scan, when config.ENABLE_LLM_FEATURES
ScanNews ==
    /\ pc = "scan_news"
    /\ \/ /\ \E ENABLE_LLM_FEATURES \in BOOLEAN :
                IF ENABLE_LLM_FEATURES
                THEN \E hits \in CycleHits :
                        /\ Len(signals) + Len(ScanList("news_sentiment", 5, 15, hits))
                               <= MaxSignals
                        /\ signals' = signals \o ScanList("news_sentiment", 5, 15, hits)
                ELSE UNCHANGED signals
          /\ pc' = "filter"
          /\ UNCHANGED <<status, faults>>
       \/ /\ Raise("news_sentiment_strategy.scan_for_signals")
          /\ UNCHANGED signals
    /\ UNCHANGED <<exit_checks, held, market_open, allow_premarket, daily_pnl, failed,
                   rebalance_signals, item, orders, closed, execution_summary,
                   portfolio, positions, unsorted_signals,
                   available_slots, approved_signals, rejected_count, cursor,
                   consulted, filtered_signals>>

\* lines 186-234: one approved signal
ExecuteStep ==
    /\ pc = "execute"
    /\ item <= Len(filtered_signals)
    /\ SubmitSignal(filtered_signals[item], "buy", "entry")
    /\ item' = item + 1
    /\ UNCHANGED <<exit_checks, held, market_open, allow_premarket, daily_pnl,
                   rebalance_signals, closed, status,
                   portfolio, positions, signals, unsorted_signals,
                   available_slots, approved_signals, rejected_count, cursor,
                   consulted, filtered_signals>>

\* the end of the entry loop
EntriesDone ==
    /\ pc = "execute"
    /\ item > Len(filtered_signals)
    /\ pc' = "exits"
    /\ item' = 1
    /\ UNCHANGED <<exit_checks, held, market_open, allow_premarket, daily_pnl, failed, faults,
                   rebalance_signals, orders, closed, execution_summary, status,
                   portfolio, positions, signals, unsorted_signals,
                   available_slots, approved_signals, rejected_count, cursor,
                   consulted, filtered_signals>>

\* the exit loop that skips no position
SkipNone(symbol) == FALSE

\* lines 239-241: `if position.symbol in defensive_symbols: continue`
SkipExit(symbol) == symbol \in defensive_symbols

\* lines 239-277: one position of the snapshot
ExitStep ==
    /\ pc = "exits"
    /\ item <= Len(positions)
    /\ LET position == positions[item]
           result == check_exit_conditions(position, LatestClose(position.symbol),
                                           FALSE)
       IN  IF SkipExit(position.symbol)
           THEN UNCHANGED <<closed, execution_summary, faults, exit_checks>>
           ELSE /\ exit_checks' = Append(exit_checks, position.symbol)
                /\ IF result[1]
                   THEN \/ /\ closed' = closed \cup {position.symbol}
                           /\ execution_summary' =
                                  [execution_summary EXCEPT !.positions_closed = @ + 1]
                           /\ UNCHANGED faults
                        \/ /\ faults < MaxFaults
                           /\ faults' = faults + 1
                           /\ UNCHANGED <<closed, execution_summary>>
                   ELSE UNCHANGED <<closed, execution_summary, faults>>
    /\ item' = item + 1
    /\ UNCHANGED <<held, market_open, allow_premarket, daily_pnl, failed,
                   rebalance_signals, orders, status, pc,
                   portfolio, positions, signals, unsorted_signals,
                   available_slots, approved_signals, rejected_count, cursor,
                   consulted, filtered_signals>>

\* the end of the exit loop
ExitsDone ==
    /\ pc = "exits"
    /\ item > Len(positions)
    /\ pc' = "analyze"
    /\ item' = 0
    /\ UNCHANGED <<exit_checks, held, market_open, allow_premarket, daily_pnl, failed, faults,
                   rebalance_signals, orders, closed, execution_summary, status,
                   portfolio, positions, signals, unsorted_signals,
                   available_slots, approved_signals, rejected_count, cursor,
                   consulted, filtered_signals>>

\* lines 279-294: the performance analysis and the return
Analyze ==
    /\ pc = "analyze"
    /\ \/ /\ status' = "success"
          /\ pc' = "done"
          /\ UNCHANGED faults
       \/ Raise("analyze_daily_performance")
    /\ UNCHANGED <<exit_checks, held, market_open, allow_premarket, daily_pnl, failed,
                   rebalance_signals, item, orders, closed, execution_summary,
                   portfolio, positions, signals, unsorted_signals,
                   available_slots, approved_signals, rejected_count, cursor,
                   consulted, filtered_signals>>

\* After the cycle the broker fills every order it accepted and closes the
\* positions it was told to close.
Settle ==
    /\ pc \in {"done", "raised"}
    /\ held' = [s \in SymbolSet |->
                   IF s \in closed THEN 0 ELSE FillAll(held, orders)[s]]
    /\ pc' = "settled"
    /\ UNCHANGED <<exit_checks, market_open, allow_premarket, daily_pnl, faults, failed,
                   rebalance_signals, item, orders, closed, execution_summary,
                   status, portfolio, positions, signals, unsorted_signals,
                   available_slots, approved_signals, rejected_count, cursor,
                   consulted, filtered_signals>>

(***************************************************************************)
(* risk_manager.validate_signal_risk, called on one signal and one         *)
(* portfolio snapshot.  Here stop_loss and take_profit are NONE when the   *)
(* signal carries none, and a number, zero included, when it carries one.  *)
(***************************************************************************)
VARIABLES vl_signal, vl_portfolio, vl_result

vl_vars == <<vl_signal, vl_portfolio, vl_result>>

\* the truth value Python gives an optional Decimal: None and 0 are false
Truthy(x) == x # NONE /\ x # 0

\* <<is_valid, reason>>
validate_signal_risk(signal, pf) ==
    IF signal.entry_price <= 0 THEN <<FALSE, "Invalid entry price">>
    ELSE IF Truthy(signal.stop_loss) /\ signal.stop_loss >= signal.entry_price
    THEN <<FALSE, "Stop-loss must be below entry price">>
    ELSE IF Truthy(signal.take_profit) /\ signal.take_profit <= signal.entry_price
    THEN <<FALSE, "Take-profit must be above entry price">>
    ELSE IF calculate_position_size(signal, pf) * signal.entry_price
                > 100 * pf.buying_power
    THEN <<FALSE, "Insufficient buying power">>
    ELSE IF /\ Truthy(signal.stop_loss)
            /\ Truthy(signal.take_profit)
            /\ RatLt(Rat(signal.take_profit - signal.entry_price,
                         signal.entry_price - signal.stop_loss), <<2, 1>>)
    THEN <<FALSE, "Risk/reward ratio too low">>
    ELSE <<TRUE, "Signal passes all risk checks">>

ValidateEntryPrices == {-100, 0, 100}
ValidateStopLosses == {NONE, 0, 90, 95, 100, 110}
ValidateTakeProfits == {NONE, 0, 90, 100, 110, 115, 130}

ValidateSignals ==
    {[ticker |-> "AAPL", action |-> "BUY", entry_price |-> e,
      stop_loss |-> sl, take_profit |-> tp, confidence |-> c,
      strategy |-> "momentum", target_value |-> NONE, current_value |-> NONE] :
        e \in ValidateEntryPrices, sl \in ValidateStopLosses,
        tp \in ValidateTakeProfits, c \in {60, 90}}

ValidatePortfolios ==
    {pf \in Portfolios : pf.portfolio_value = 10000}

IdleValidate ==
    /\ vl_signal = NONE
    /\ vl_portfolio = NONE
    /\ vl_result = <<>>

InitValidate ==
    /\ vl_signal \in ValidateSignals
    /\ vl_portfolio \in ValidatePortfolios
    /\ vl_result = <<>>

\* is_valid, reason = validate_signal_risk(signal, portfolio)
ValidateCall ==
    /\ vl_result = <<>>
    /\ vl_result' = validate_signal_risk(vl_signal, vl_portfolio)
    /\ UNCHANGED <<vl_signal, vl_portfolio>>

(***************************************************************************)
(* correlation_monitor.check_new_signal, called on one candidate, one list *)
(* of held positions and one portfolio value, with what the price provider *)
(* gives for the candidate and for each held position.                     *)
(***************************************************************************)
VARIABLES cm_signal, cm_positions, cm_portfolio_value, cm_new_prices,
          cm_existing, cm_result

cm_vars == <<cm_signal, cm_positions, cm_portfolio_value, cm_new_prices,
             cm_existing, cm_result>>

\* the symbols held when the monitor is called on its own
MonitorHoldable == {"AAPL", "MSFT", "JPM", "XOM"}

MonitorPortfolioValues == {5000, 10000}

\* the candidates: a Technology and a Finance ticker
MonitorSignals ==
    {EntrySignal(t, e, 3, 8, 75, "momentum") :
        t \in {"NVDA", "JPM"}, e \in {100, 215, 216}}

\* the held positions are part of the portfolio value
RECURSIVE TotalMarketValue(_)
TotalMarketValue(current_positions) ==
    IF current_positions = <<>> THEN 0
    ELSE Head(current_positions).market_value
         + TotalMarketValue(Tail(current_positions))

IdleMonitor ==
    /\ cm_signal = NONE
    /\ cm_positions = <<>>
    /\ cm_portfolio_value = NONE
    /\ cm_new_prices = "none"
    /\ cm_existing = <<>>
    /\ cm_result = <<>>

InitMonitor ==
    /\ cm_signal \in MonitorSignals
    /\ cm_positions \in {get_positions(Holding(h)) : h \in SUBSET MonitorHoldable}
    /\ cm_portfolio_value \in MonitorPortfolioValues
    /\ TotalMarketValue(cm_positions) <= cm_portfolio_value
    /\ cm_new_prices \in PriceHistories
    /\ cm_existing \in [1..Len(cm_positions) -> PositionOutcomes]
    /\ cm_result = <<>>

\* approved, reason = await check_new_signal(signal, positions, portfolio_value)
MonitorCall ==
    /\ cm_result = <<>>
    /\ cm_result' = check_new_signal(cm_signal, cm_positions, cm_portfolio_value,
                                     cm_new_prices, cm_existing)
    /\ UNCHANGED <<cm_signal, cm_positions, cm_portfolio_value, cm_new_prices,
                   cm_existing>>

(***************************************************************************)
(* momentum_trading.check_exit_conditions, called on one open position     *)
(* with what the broker quotes and what the indicators say.                *)
(***************************************************************************)
VARIABLES ex_position, ex_quote, ex_technical, ex_result

ex_vars == <<ex_position, ex_quote, ex_technical, ex_result>>

ExitEntryPrices == {100, 200}

\* the quote in percent of the average entry price; NONE: the call raises
ExitQuotePcts == {NONE, 90, 97, 98, 100, 107, 108, 120}

ExitPositions ==
    {[symbol |-> s, market_value |-> MarketValue(s), avg_entry_price |-> e,
      current_price |-> LatestClose(s)] :
        s \in {"AAPL", "MSFT", "JPM", "XOM", "TSLA"}, e \in ExitEntryPrices}

IdleExit ==
    /\ ex_position = NONE
    /\ ex_quote = NONE
    /\ ex_technical = FALSE
    /\ ex_result = <<>>

InitExit ==
    /\ ex_position \in ExitPositions
    /\ \E pct \in ExitQuotePcts :
          ex_quote = IF pct = NONE THEN NONE
                     ELSE (ex_position.avg_entry_price * pct) \div 100
    /\ ex_technical \in BOOLEAN
    /\ ex_result = <<>>

\* should_exit, reason = await check_exit_conditions(position, alpaca)
ExitCall ==
    /\ ex_result = <<>>
    /\ ex_result' = check_exit_conditions(ex_position, ex_quote, ex_technical)
    /\ UNCHANGED <<ex_position, ex_quote, ex_technical>>

(***************************************************************************)
(* data_client.RateLimiter, shared by concurrent callers of acquire().     *)
(* Callers are coroutines of one event loop: acquire runs without          *)
(* interruption up to its await of asyncio.sleep and again from the wake   *)
(* to its return.  Time is in whole ticks.                                 *)
(***************************************************************************)
VARIABLES rl_max_calls, rl_period, rl_now, rl_calls, rl_pc, rl_wake,
          rl_acquired, rl_begun

rl_vars == <<rl_max_calls, rl_period, rl_now, rl_calls, rl_pc, rl_wake,
             rl_acquired, rl_begun>>

\* the clock stops at MaxTime and at most MaxAcquires calls of acquire begin
MaxTime == 4
MaxAcquires == 3

Callers == {1, 2}

LimiterMaxCalls == {0, 1, 2}
LimiterPeriods == {2, 3}

\* [t for t in self.calls if now - t < self.period]
InWindow(calls, now, period) == SelectSeq(calls, LAMBDA t : now - t < period)

\* self.calls[1:]
Rest(calls) == IF calls = <<>> THEN <<>> ELSE Tail(calls)

IdleLimiter ==
    /\ rl_max_calls = NONE
    /\ rl_period = NONE
    /\ rl_now = 0
    /\ rl_calls = <<>>
    /\ rl_pc = <<>>
    /\ rl_wake = <<>>
    /\ rl_acquired = <<>>
    /\ rl_begun = 0

\* RateLimiter(max_calls, period_seconds)
InitRateLimiter ==
    /\ rl_max_calls \in LimiterMaxCalls
    /\ rl_period \in LimiterPeriods
    /\ rl_now = 0
    /\ rl_calls = <<>>
    /\ rl_pc = [c \in Callers |-> "idle"]
    /\ rl_wake = [c \in Callers |-> 0]
    /\ rl_acquired = <<>>
    /\ rl_begun = 0

\* acquire() from its first line to the await of the sleep, or to its
\* return when it does not sleep; an empty window that is full
\* (max_calls = 0) raises IndexError at self.calls[0]
AcquireBegin(c) ==
    /\ rl_pc[c] \in {"idle", "returned"}
    /\ rl_begun < MaxAcquires
    /\ rl_begun' = rl_begun + 1
    /\ LET now == rl_now
           calls == InWindow(rl_calls, now, rl_period)
       IN  IF Len(calls) >= rl_max_calls
           THEN IF calls = <<>>
                THEN /\ rl_calls' = calls
                     /\ rl_pc' = [rl_pc EXCEPT ![c] = "raised"]
                     /\ UNCHANGED <<rl_wake, rl_acquired>>
                ELSE LET oldest_call == calls[1]
                         sleep_time == oldest_call + rl_period - now
                     IN  IF sleep_time > 0
                         THEN /\ rl_calls' = calls
                              /\ rl_pc' = [rl_pc EXCEPT ![c] = "sleeping"]
                              /\ rl_wake' = [rl_wake EXCEPT ![c] = now + sleep_time]
                              /\ UNCHANGED rl_acquired
                         ELSE /\ rl_calls' = Append(Rest(calls), now)
                              /\ rl_pc' = [rl_pc EXCEPT ![c] = "returned"]
                              /\ rl_acquired' = Append(rl_acquired, now)
                              /\ UNCHANGED rl_wake
           ELSE /\ rl_calls' = Append(calls, now)
                /\ rl_pc' = [rl_pc EXCEPT ![c] = "returned"]
                /\ rl_acquired' = Append(rl_acquired, now)
                /\ UNCHANGED rl_wake
    /\ UNCHANGED <<rl_max_calls, rl_period, rl_now>>

\* acquire() from the end of the sleep to its return
AcquireWake(c) ==
    /\ rl_pc[c] = "sleeping"
    /\ rl_now >= rl_wake[c]
    /\ rl_calls' = Append(Rest(rl_calls), rl_now)
    /\ rl_pc' = [rl_pc EXCEPT ![c] = "returned"]
    /\ rl_acquired' = Append(rl_acquired, rl_now)
    /\ UNCHANGED <<rl_max_calls, rl_period, rl_now, rl_wake, rl_begun>>

\* the clock
Tick ==
    /\ rl_pc # <<>>
    /\ rl_now < MaxTime
    /\ rl_now' = rl_now + 1
    /\ UNCHANGED <<rl_max_calls, rl_period, rl_calls, rl_pc, rl_wake,
                   rl_acquired, rl_begun>>

LimiterBegin == \E c \in Callers : AcquireBegin(c)
LimiterWake == \E c \in Callers : AcquireWake(c)

(***************************************************************************)
(* defensive_core.should_rebalance, called on one date, one list of        *)
(* positions and one portfolio snapshot.                                   *)
(***************************************************************************)
VARIABLES rb_first_trading_day, rb_positions, rb_portfolio, rb_result

rb_vars == <<rb_first_trading_day, rb_positions, rb_portfolio, rb_result>>

\* the market values a defensive holding can have; 0: not held
DefensiveValues(symbol) ==
    CASE symbol = "VTI" -> {0, 1000, 1500, 2000, 2001}
      [] symbol = "VGK" -> {0, 300, 800, 1300}
      [] symbol = "GLD" -> {0, 199, 700, 1200}
      [] OTHER -> {0, 1850}

\* the books the check is called with: the defensive ETFs and one stock
RebalanceBooks ==
    {[s \in SymbolSet |-> IF s = "VTI" THEN vti
                          ELSE IF s = "VGK" THEN vgk
                          ELSE IF s = "GLD" THEN gld
                          ELSE IF s = "AAPL" THEN aapl ELSE 0] :
        vti \in DefensiveValues("VTI"), vgk \in DefensiveValues("VGK"),
        gld \in DefensiveValues("GLD"), aapl \in DefensiveValues("AAPL")}

IdleRebalance ==
    /\ rb_first_trading_day = FALSE
    /\ rb_positions = <<>>
    /\ rb_portfolio = NONE
    /\ rb_result = <<>>

\* the positions and the cash are within the portfolio value
InitRebalance ==
    /\ rb_first_trading_day \in BOOLEAN
    /\ rb_positions \in {get_positions(book) : book \in RebalanceBooks}
    /\ rb_portfolio \in CyclePortfolios
    /\ TotalMarketValue(rb_positions) + rb_portfolio.cash <= rb_portfolio.portfolio_value
    /\ rb_result = <<>>

\* await should_rebalance(today, positions, portfolio)
RebalanceCall ==
    /\ rb_result = <<>>
    /\ rb_result' = <<should_rebalance(rb_first_trading_day, rb_positions,
                                       rb_portfolio)>>
    /\ UNCHANGED <<rb_first_trading_day, rb_positions, rb_portfolio>>

(***************************************************************************)
(* CorrelationMonitor._get_price_history and its cache of price series.    *)
(* Time is in half days; a daily bar carries the midnight that starts its  *)
(* day.  The cache keeps the fetched history, of which the code reads the  *)
(* timestamp of the last bar.                                              *)
(***************************************************************************)
VARIABLES ph_now, ph_cache, ph_fetched, ph_last

ph_vars == <<ph_now, ph_cache, ph_fetched, ph_last>>

\* one day, the age below which `time_since_update.days < 1` holds
DayTicks == 2

\* the clock stops at MaxClock
MaxClock == 5

CachedTickers == {"AAPL", "JPM"}

\* the midnight that starts the day of a time
Midnight(now) == (now \div DayTicks) * DayTicks

\* The last bar of a history fetched at a time: the bar of the day, once the
\* day has traded, or the bar of the day before.
LastBars(now) == {Midnight(now), Midnight(now) - DayTicks}

IdleHistory ==
    /\ ph_now = 0
    /\ ph_cache = <<>>
    /\ ph_fetched = <<>>
    /\ ph_last = <<>>

\* CorrelationMonitor(): the cache is empty
InitHistory ==
    /\ ph_now = DayTicks
    /\ ph_cache = [t \in CachedTickers |-> NONE]
    /\ ph_fetched = [t \in CachedTickers |-> NONE]
    /\ ph_last = <<>>

\* _get_price_history(ticker).  ph_cache[ticker] is the timestamp of the
\* last bar of the cached history, ph_fetched[ticker] the time of the fetch
\* that filled it; ph_last tells of the latest request whether it went to
\* the provider and when the ticker had been fetched before.
GetPriceHistory(ticker) ==
    /\ ph_cache # <<>>
    /\ LET cached == ph_cache[ticker]
           fresh == cached # NONE /\ ph_now - cached < DayTicks
           request(external) ==
               <<[ticker |-> ticker, at |-> ph_now, external |-> external,
                  fetched |-> ph_fetched[ticker]]>>
       IN  IF fresh
           THEN /\ ph_last' = request(FALSE)
                /\ UNCHANGED <<ph_cache, ph_fetched>>
           ELSE /\ ph_last' = request(TRUE)
                /\ \/ \E last_bar \in LastBars(ph_now) :
                         /\ ph_cache' = [ph_cache EXCEPT ![ticker] = last_bar]
                         /\ ph_fetched' = [ph_fetched EXCEPT ![ticker] = ph_now]
                   \/ \* history.empty, or the provider raises: None
                      UNCHANGED <<ph_cache, ph_fetched>>
    /\ UNCHANGED ph_now

HistoryRequest == \E ticker \in CachedTickers : GetPriceHistory(ticker)

\* the clock
HistoryTick ==
    /\ ph_cache # <<>>
    /\ ph_now < MaxClock
    /\ ph_now' = ph_now + 1
    /\ UNCHANGED <<ph_cache, ph_fetched, ph_last>>

vars == <<sz_vars, cb_vars, filter_vars, cycle_vars, vl_vars, cm_vars, ex_vars, rl_vars, rb_vars, ph_vars>>

(***************************************************************************)
(* Specifications.                                                         *)
(***************************************************************************)
InitSizing == InitSize /\ IdleBreaker /\ IdleFilter /\ IdleCycle /\ IdleValidate /\ IdleMonitor /\ IdleExit /\ IdleLimiter /\ IdleRebalance /\ IdleHistory
NextSizing == SizeCall /\ UNCHANGED <<cb_vars, filter_vars, cycle_vars, vl_vars, cm_vars, ex_vars, rl_vars, rb_vars, ph_vars>>
SpecSizing == InitSizing /\ [][NextSizing]_vars

InitCircuitBreaker == InitBreaker /\ IdleSize /\ IdleFilter /\ IdleCycle /\ IdleValidate /\ IdleMonitor /\ IdleExit /\ IdleLimiter /\ IdleRebalance /\ IdleHistory
NextCircuitBreaker ==
    BreakerCall /\ UNCHANGED <<sz_vars, filter_vars, cycle_vars, vl_vars, cm_vars, ex_vars, rl_vars, rb_vars, ph_vars>>
SpecCircuitBreaker == InitCircuitBreaker /\ [][NextCircuitBreaker]_vars

InitFilter == InitFilterCall /\ IdleSize /\ IdleBreaker /\ IdleCycle /\ IdleValidate /\ IdleMonitor /\ IdleExit /\ IdleLimiter /\ IdleRebalance /\ IdleHistory
NextFilter ==
    \/ FilterStart /\ UNCHANGED <<sz_vars, cb_vars, cycle_vars, vl_vars, cm_vars, ex_vars, rl_vars, rb_vars, ph_vars>>
    \/ FilterStep /\ UNCHANGED <<sz_vars, cb_vars, cycle_vars, vl_vars, cm_vars, ex_vars, rl_vars, rb_vars, ph_vars>>
    \/ FilterReturn /\ UNCHANGED <<sz_vars, cb_vars, cycle_vars, vl_vars, cm_vars, ex_vars, rl_vars, rb_vars, ph_vars>>
SpecFilter == InitFilter /\ [][NextFilter]_vars

Init == InitCycle /\ IdleSize /\ IdleBreaker /\ IdleValidate /\ IdleMonitor /\ IdleExit /\ IdleLimiter /\ IdleRebalance /\ IdleHistory
Next ==
    \/ CheckMarketOpen /\ UNCHANGED <<sz_vars, cb_vars, vl_vars, cm_vars, ex_vars, rl_vars, rb_vars, ph_vars>>
    \/ GetPortfolio /\ UNCHANGED <<sz_vars, cb_vars, vl_vars, cm_vars, ex_vars, rl_vars, rb_vars, ph_vars>>
    \/ CheckRebalance /\ UNCHANGED <<sz_vars, cb_vars, vl_vars, cm_vars, ex_vars, rl_vars, rb_vars, ph_vars>>
    \/ RebalanceStep /\ UNCHANGED <<sz_vars, cb_vars, vl_vars, cm_vars, ex_vars, rl_vars, rb_vars, ph_vars>>
    \/ RebalanceDone /\ UNCHANGED <<sz_vars, cb_vars, vl_vars, cm_vars, ex_vars, rl_vars, rb_vars, ph_vars>>
    \/ ScanMomentum /\ UNCHANGED <<sz_vars, cb_vars, vl_vars, cm_vars, ex_vars, rl_vars, rb_vars, ph_vars>>
    \/ ScanNews /\ UNCHANGED <<sz_vars, cb_vars, vl_vars, cm_vars, ex_vars, rl_vars, rb_vars, ph_vars>>
    \/ FilterStart /\ UNCHANGED <<sz_vars, cb_vars, cycle_vars, vl_vars, cm_vars, ex_vars, rl_vars, rb_vars, ph_vars>>
    \/ FilterStep /\ UNCHANGED <<sz_vars, cb_vars, cycle_vars, vl_vars, cm_vars, ex_vars, rl_vars, rb_vars, ph_vars>>
    \/ FilterReturn /\ UNCHANGED <<sz_vars, cb_vars, cycle_vars, vl_vars, cm_vars, ex_vars, rl_vars, rb_vars, ph_vars>>
    \/ ExecuteStep /\ UNCHANGED <<sz_vars, cb_vars, vl_vars, cm_vars, ex_vars, rl_vars, rb_vars, ph_vars>>
    \/ EntriesDone /\ UNCHANGED <<sz_vars, cb_vars, vl_vars, cm_vars, ex_vars, rl_vars, rb_vars, ph_vars>>
    \/ ExitStep /\ UNCHANGED <<sz_vars, cb_vars, vl_vars, cm_vars, ex_vars, rl_vars, rb_vars, ph_vars>>
    \/ ExitsDone /\ UNCHANGED <<sz_vars, cb_vars, vl_vars, cm_vars, ex_vars, rl_vars, rb_vars, ph_vars>>
    \/ Analyze /\ UNCHANGED <<sz_vars, cb_vars, vl_vars, cm_vars, ex_vars, rl_vars, rb_vars, ph_vars>>
    \/ Settle /\ UNCHANGED <<sz_vars, cb_vars, vl_vars, cm_vars, ex_vars, rl_vars, rb_vars, ph_vars>>
Spec == Init /\ [][Next]_vars

InitValidation ==
    InitValidate /\ IdleSize /\ IdleBreaker /\ IdleFilter /\ IdleCycle /\ IdleMonitor /\ IdleExit /\ IdleLimiter /\ IdleRebalance /\ IdleHistory
NextValidation ==
    ValidateCall /\ UNCHANGED <<sz_vars, cb_vars, filter_vars, cycle_vars, cm_vars, ex_vars, rl_vars, rb_vars, ph_vars>>
SpecValidation == InitValidation /\ [][NextValidation]_vars

InitMonitoring ==
    InitMonitor /\ IdleSize /\ IdleBreaker /\ IdleFilter /\ IdleCycle /\ IdleValidate /\ IdleExit /\ IdleLimiter /\ IdleRebalance /\ IdleHistory
NextMonitoring ==
    MonitorCall /\ UNCHANGED <<sz_vars, cb_vars, filter_vars, cycle_vars, vl_vars, ex_vars, rl_vars, rb_vars, ph_vars>>
SpecMonitoring == InitMonitoring /\ [][NextMonitoring]_vars

InitExits ==
    InitExit /\ IdleSize /\ IdleBreaker /\ IdleFilter /\ IdleCycle /\ IdleValidate /\ IdleMonitor /\ IdleLimiter /\ IdleRebalance /\ IdleHistory
NextExits ==
    \/ ExitCall /\ UNCHANGED <<sz_vars, cb_vars, filter_vars, cycle_vars, vl_vars, cm_vars, rl_vars, rb_vars, ph_vars>>
SpecExits == InitExits /\ [][NextExits]_vars

InitLimiter ==
    InitRateLimiter /\ IdleSize /\ IdleBreaker /\ IdleFilter /\ IdleCycle /\ IdleValidate /\ IdleMonitor /\ IdleExit /\ IdleRebalance /\ IdleHistory
NextLimiter ==
    \/ LimiterBegin /\ UNCHANGED <<sz_vars, cb_vars, filter_vars, cycle_vars, vl_vars, cm_vars, ex_vars, rb_vars, ph_vars>>
    \/ LimiterWake /\ UNCHANGED <<sz_vars, cb_vars, filter_vars, cycle_vars, vl_vars, cm_vars, ex_vars, rb_vars, ph_vars>>
    \/ Tick /\ UNCHANGED <<sz_vars, cb_vars, filter_vars, cycle_vars, vl_vars, cm_vars, ex_vars, rb_vars, ph_vars>>
SpecLimiter == InitLimiter /\ [][NextLimiter]_vars

InitRebalanceCheck ==
    InitRebalance /\ IdleSize /\ IdleBreaker /\ IdleFilter /\ IdleCycle /\ IdleValidate /\ IdleMonitor /\ IdleExit /\ IdleLimiter /\ IdleHistory
NextRebalanceCheck ==
    \/ RebalanceCall /\ UNCHANGED <<sz_vars, cb_vars, filter_vars, cycle_vars, vl_vars, cm_vars, ex_vars, rl_vars, ph_vars>>
SpecRebalanceCheck == InitRebalanceCheck /\ [][NextRebalanceCheck]_vars

InitPriceHistory ==
    InitHistory /\ IdleSize /\ IdleBreaker /\ IdleFilter /\ IdleCycle /\ IdleValidate /\ IdleMonitor /\ IdleExit /\ IdleLimiter /\ IdleRebalance
NextPriceHistory ==
    \/ HistoryRequest /\ UNCHANGED <<sz_vars, cb_vars, filter_vars, cycle_vars, vl_vars, cm_vars, ex_vars, rl_vars, rb_vars>>
    \/ HistoryTick /\ UNCHANGED <<sz_vars, cb_vars, filter_vars, cycle_vars, vl_vars, cm_vars, ex_vars, rl_vars, rb_vars>>
SpecPriceHistory == InitPriceHistory /\ [][NextPriceHistory]_vars


(***************************************************************************)
(* Properties of filter_signals_by_risk.                                   *)
(***************************************************************************)
\* the filter has returned
FilterReturned == pc = "execute"

\* the filter passed the position limit and entered its loop
FilterLooped == FilterReturned /\ cursor > 0 /\ available_slots > 0

ActiveCount(current_positions) ==
    Cardinality({i \in 1..Len(current_positions) :
                    current_positions[i].symbol \notin defensive_symbols})

Min(a, b) == IF a < b THEN a ELSE b

RECURSIVE IsSubSeq(_, _)
IsSubSeq(a, b) ==
    IF a = <<>> THEN TRUE
    ELSE IF b = <<>> THEN FALSE
    ELSE IF Head(a) = Head(b) THEN IsSubSeq(Tail(a), Tail(b))
    ELSE IsSubSeq(a, Tail(b))

WithConfidence(list, c) == SelectSeq(list, LAMBDA x : x.confidence = c)

\* C1: the filter returns at most MAX_POSITIONS minus the number of held
\* non-defensive positions; it returns the empty list when that number is
\* already MAX_POSITIONS or more; defensive holdings take no slot: when the
\* monitor rejects nothing, min(number of signals, MAX_POSITIONS - active)
\* signals come back however many defensive positions are held.
TheoremC1 ==
    FilterReturned =>
        LET active == ActiveCount(positions)
        IN  /\ active >= MAX_POSITIONS => filtered_signals = <<>>
            /\ active < MAX_POSITIONS =>
                  /\ Len(filtered_signals) <= MAX_POSITIONS - active
                  /\ rejected_count = 0 =>
                        Len(filtered_signals)
                            = Min(Len(unsorted_signals), MAX_POSITIONS - active)

WitnessC1 ==
    /\ FilterReturned
    /\ \E i \in 1..Len(positions) : positions[i].symbol \in defensive_symbols
    /\ ActiveCount(positions) = MAX_POSITIONS - 2
    /\ Len(unsorted_signals) = 3
    /\ Len(filtered_signals) = 2

\* C2: the returned list is ordered by non-increasing confidence, and the
\* returned signals of one confidence keep the relative order they had in
\* the list passed in.
TheoremC2 ==
    FilterReturned =>
        /\ \A i, j \in 1..Len(filtered_signals) :
              i < j => filtered_signals[i].confidence >= filtered_signals[j].confidence
        /\ \A c \in {filtered_signals[i].confidence : i \in 1..Len(filtered_signals)} :
              IsSubSeq(WithConfidence(filtered_signals, c),
                       WithConfidence(unsorted_signals, c))

WitnessC2 ==
    /\ FilterReturned
    /\ Len(filtered_signals) = 3
    /\ unsorted_signals # signals
    /\ filtered_signals[2].confidence = filtered_signals[3].confidence
    /\ filtered_signals[2] # filtered_signals[3]
    /\ filtered_signals[1].confidence > filtered_signals[2].confidence

\* C3: the filter walks the sorted list once, front to back; the approved
\* list is exactly the candidates the monitor admitted, in that order; every
\* consulted candidate is either approved or counted as rejected; the monitor
\* is consulted only while fewer than available_slots candidates are
\* approved; and the walk ends only when the slots are full or every
\* candidate has been consulted.
TheoremC3 ==
    (pc = "filter_loop" \/ FilterLooped) =>
        LET admitted == SelectSeq(consulted, LAMBDA e : e.approved)
            approvedBefore(k) ==
                Cardinality({i \in 1..(k - 1) : consulted[i].approved})
        IN  /\ Len(consulted) <= Len(signals)
            /\ \A k \in 1..Len(consulted) : consulted[k].signal = signals[k]
            /\ approved_signals = [k \in 1..Len(admitted) |-> admitted[k].signal]
            /\ Len(consulted) = Len(approved_signals) + rejected_count
            /\ \A k \in 1..Len(consulted) : approvedBefore(k) < available_slots
            /\ FilterReturned =>
                  /\ filtered_signals = approved_signals
                  /\ \/ Len(consulted) = Len(signals)
                     \/ Len(filtered_signals) = available_slots

WitnessC3 ==
    /\ FilterLooped
    /\ Len(consulted) = 2
    /\ Len(signals) = 3
    /\ ~consulted[1].approved
    /\ consulted[2].approved
    /\ consulted[2].signal.confidence < consulted[1].signal.confidence
    /\ Len(filtered_signals) = available_slots

\* the dollars one approved signal commits: quantity x entry_price
RECURSIVE CommittedInSector(_, _, _)
CommittedInSector(approved, pf, sector) ==
    IF approved = <<>> THEN 0
    ELSE LET signal == Head(approved)
         IN  (IF SECTOR_MAP(signal.ticker) = sector
              THEN (calculate_position_size(signal, pf) * signal.entry_price) \div 100
              ELSE 0)
             + CommittedInSector(Tail(approved), pf, sector)

\* C5: the signals approved by one call, added at their order value to the
\* positions held, leave every sector at or below MAX_SECTOR_ALLOCATION of
\* the portfolio value.
ClaimC5 ==
    (FilterReturned /\ filtered_signals # <<>>) =>
        \A sector \in {SECTOR_MAP(filtered_signals[i].ticker) :
                          i \in 1..Len(filtered_signals)} :
            (SectorValue(positions, sector)
                + CommittedInSector(filtered_signals, portfolio, sector)) * 100
              <= MAX_SECTOR_ALLOCATION * portfolio.portfolio_value

(***************************************************************************)
(* Properties of the cycle.                                                *)
(***************************************************************************)
\* the active (non-defensive) symbols of the broker's book
ActiveHeld(book) ==
    Cardinality({s \in SymbolSet : book[s] > 0 /\ s \notin defensive_symbols})

EntryOrders == SelectSeq(orders, LAMBDA o : o.kind = "entry")

\* the dollars, in cents, the orders of a list commit
RECURSIVE Committed(_)
Committed(list) ==
    IF list = <<>> THEN 0
    ELSE Head(list).qty * Head(list).price + Committed(Tail(list))

\* C4: a cycle that starts with at most MAX_POSITIONS active positions ends,
\* when every order it submitted has filled and nothing was closed, with at
\* most MAX_POSITIONS active positions.
TheoremC4 ==
    [][(pc' = "settled" /\ ActiveHeld(held) <= MAX_POSITIONS)
          => ActiveHeld(held') <= MAX_POSITIONS]_vars

\* a cycle that started with four active positions has filled an entry order
\* for a fifth
WitnessC4 ==
    /\ pc = "settled"
    /\ ActiveCount(positions) = MAX_POSITIONS - 1
    /\ Len(EntryOrders) > 0
    /\ closed = {}
    /\ ActiveHeld(held) = MAX_POSITIONS

\* C7: in a cycle run while daily_pnl / portfolio_value <= -3%, no entry
\* order is submitted.
ClaimC7 ==
    \A i \in 1..Len(orders) :
        orders[i].kind = "entry"
            => check_daily_loss_limit(daily_pnl, portfolio.portfolio_value) # "True"

\* C10: the entry orders of one cycle commit, together, at most the buying
\* power of the portfolio snapshot they were sized against.
ClaimC10 ==
    Len(EntryOrders) > 0 => Committed(EntryOrders) <= 100 * portfolio.buying_power

(***************************************************************************)
(* Properties of check_daily_loss_limit.                                   *)
(***************************************************************************)
\* C6: check_daily_loss_limit returns True exactly when
\* daily_pnl / portfolio_value <= -3%: True for -300.00 on 10000.00, False
\* for -299.99 on 10000.00, never True on a profit, and whatever the call
\* before returned.
TheoremC6 ==
    (cb_calls > 0 /\ cb_pv > 0) =>
        /\ cb_result = "True" <=> 100 * cb_pnl <= -(DAILY_LOSS_LIMIT_PCT * cb_pv)
        /\ cb_result \in {"True", "False"}
        /\ (cb_pnl = -30000 /\ cb_pv = 1000000) => cb_result = "True"
        /\ (cb_pnl = -29999 /\ cb_pv = 1000000) => cb_result = "False"
        /\ cb_pnl >= 0 => cb_result = "False"

\* the call at exactly the threshold, after a call that did not trigger
WitnessC6 ==
    /\ cb_calls = 2
    /\ cb_prev = "False"
    /\ cb_pnl = -30000
    /\ cb_pv = 1000000
    /\ cb_result = "True"

(***************************************************************************)
(* Properties of calculate_position_size.                                  *)
(***************************************************************************)
\* C8: the size computed for a signal, times entry_price, is at most
\* portfolio.buying_power and at most 15% of portfolio.portfolio_value.
ClaimC8 ==
    sz_qty # NONE =>
        /\ sz_qty * sz_signal.entry_price <= 100 * sz_portfolio.buying_power
        /\ sz_qty * sz_signal.entry_price
               <= PositionSizer_MAX_POSITION_SIZE_PCT[1] * sz_portfolio.portfolio_value

\* C9: the quantity computed for a momentum signal, times entry_price, is at
\* most portfolio_value x risk_manager.MAX_POSITION_SIZE_PCT (10%).
ClaimC9 ==
    (sz_qty # NONE /\ sz_signal.strategy = "momentum") =>
        sz_qty * sz_signal.entry_price
            <= MAX_POSITION_SIZE_PCT * sz_portfolio.portfolio_value

\* the dollar value the sizer computed for the signal of the call
DollarValue == PositionSizer_calculate_position_size(sz_signal, sz_portfolio)

Present(x) == x # NONE

\* C12: validate_signal_risk returns is_valid = False exactly for the signals
\* whose entry_price <= 0, or whose stop_loss is present and >= entry_price,
\* or whose take_profit is present and <= entry_price, or whose required
\* capital exceeds buying_power, or whose reward/risk ratio is below 2.0 with
\* both legs present.
ClaimC12 ==
    vl_result # <<>> =>
        (~vl_result[1] <=>
            \/ vl_signal.entry_price <= 0
            \/ Present(vl_signal.stop_loss)
                   /\ vl_signal.stop_loss >= vl_signal.entry_price
            \/ Present(vl_signal.take_profit)
                   /\ vl_signal.take_profit <= vl_signal.entry_price
            \/ calculate_position_size(vl_signal, vl_portfolio) * vl_signal.entry_price
                   > 100 * vl_portfolio.buying_power
            \/ /\ Present(vl_signal.stop_loss)
               /\ Present(vl_signal.take_profit)
               /\ vl_signal.take_profit - vl_signal.entry_price
                      < 2 * (vl_signal.entry_price - vl_signal.stop_loss))

(***************************************************************************)
(* Properties of the cycle: skipping and failures.                         *)
(***************************************************************************)
\* C13: with the market closed and pre-market execution not allowed the
\* cycle returns 'skipped' (reason market_closed) and does nothing else: no
\* portfolio snapshot, no order submitted or closed, no analysis.
TheoremC13 ==
    (~market_open /\ ~allow_premarket /\ pc # "market") =>
        /\ pc \in {"done", "raised", "settled"}
        /\ status \in {"skipped", "is_market_open"}
        /\ faults = 0 => status = "skipped"
        /\ orders = <<>>
        /\ closed = {}
        /\ positions = <<>>
        /\ execution_summary = NoSummary
        /\ held \in {Holding(h) : h \in CycleHoldings}
        /\ portfolio = NONE

\* a skipped cycle on a book that holds active positions
WitnessC13 ==
    /\ ~market_open
    /\ ~allow_premarket
    /\ status = "skipped"
    /\ pc = "settled"
    /\ ActiveHeld(held) > 0

\* C14: when get_account or get_positions fails the cycle aborts by raising
\* the error to its caller, and no order is submitted and no position is
\* closed in that cycle.
TheoremC14 ==
    status \in SnapshotCalls =>
        /\ pc \in {"raised", "settled"}
        /\ orders = <<>>
        /\ closed = {}
        /\ execution_summary = NoSummary
        /\ held \in {Holding(h) : h \in CycleHoldings}

\* a cycle on an open market that was aborted by a failure of get_positions,
\* on a book that holds positions
WitnessC14 ==
    /\ status = "get_positions"
    /\ pc = "settled"
    /\ market_open
    /\ ActiveHeld(held) > 0

\* the orders of one loop at the broker, and the failures its handler logged
OrdersOf(kind) == SelectSeq(orders, LAMBDA o : o.kind = kind)
FailedOf(kind, call) ==
    SelectSeq(failed, LAMBDA f : f.kind = kind /\ f.call = call)

\* the tickers of a list of signals that were handled by a loop: an order at
\* the broker, or a logged failure of the sizing or submission
RECURSIVE Handled(_, _)
Handled(list, kind) ==
    IF list = <<>> THEN TRUE
    ELSE /\ \/ \E i \in 1..Len(OrdersOf(kind)) :
                  OrdersOf(kind)[i].symbol = Head(list).ticker
            \/ \E i \in 1..Len(failed) :
                  /\ failed[i].kind = kind
                  /\ failed[i].ticker = Head(list).ticker
         /\ Handled(Tail(list), kind)

\* C15: a failure of the sizing or submission of one signal is logged, the
\* remaining signals of the loop are still sized and submitted, and the
\* cycle is not aborted by it: it goes on to the exit checks and the
\* analysis.
TheoremC15 ==
    /\ pc \in {"scan_momentum", "scan_news", "filter", "filter_loop", "execute",
               "exits", "analyze", "done"}
          => /\ Len(OrdersOf("rebalance")) + Len(FailedOf("rebalance", "submit_market_order"))
                    = Len(rebalance_signals)
             /\ Handled(rebalance_signals, "rebalance")
    /\ pc \in {"exits", "analyze", "done"}
          => /\ Len(OrdersOf("entry")) + Len(FailedOf("entry", "submit_market_order"))
                    = Len(filtered_signals)
             /\ Handled(filtered_signals, "entry")
    /\ pc = "raised" => faults > Len(failed)
    /\ status = "success" => pc \in {"done", "settled"}
    /\ (pc = "settled" /\ faults = Len(failed) /\ market_open) => status = "success"

\* a cycle that completed although the submission for the first of two
\* approved signals failed: the second one is at the broker
WitnessC15 ==
    /\ pc = "settled"
    /\ status = "success"
    /\ Len(filtered_signals) = 2
    /\ filtered_signals[1].ticker # filtered_signals[2].ticker
    /\ Len(FailedOf("entry", "submit_market_order")) = 1
    /\ failed[1].ticker = filtered_signals[1].ticker
    /\ Len(OrdersOf("entry")) = 1
    /\ OrdersOf("entry")[1].symbol = filtered_signals[2].ticker

\* C16: a failure of one signal producer, the momentum scanner or the news
\* strategy, does not abort the cycle: the signals of the other producer are
\* still collected and passed to the risk filter.
ClaimC16 ==
    status \in ProducerCalls =>
        pc \in {"filter", "filter_loop", "execute", "exits", "analyze", "done", "settled"}

\* C17: a failure of the persistence sink (log_trade, log_signal) is never
\* propagated: it does not reach the handler of the loop body, and the
\* order that was submitted before it is counted like any other.
ClaimC17 ==
    /\ \A i \in 1..Len(failed) : failed[i].call # "log_trade"
    /\ execution_summary.orders_executed = Len(orders)


(***************************************************************************)
(* Properties of correlation_monitor.check_new_signal.                     *)
(***************************************************************************)
MonitorReturned == cm_result # <<>>

\* the sectors of the held positions and of the candidate
MonitorSectors ==
    {SECTOR_MAP(cm_positions[i].symbol) : i \in 1..Len(cm_positions)}
        \cup {SECTOR_MAP(cm_signal.ticker)}

\* what a sector holds once the candidate's synthetic value is added to its
\* sector
ValueWithCandidate(sector) ==
    SectorValue(cm_positions, sector)
        + (IF SECTOR_MAP(cm_signal.ticker) = sector
           THEN cm_signal.entry_price * ASSUMED_SHARES ELSE 0)

SectorExceeds(sector) ==
    ValueWithCandidate(sector) * 100 > MAX_SECTOR_ALLOCATION * cm_portfolio_value

TheoremC19 ==
    (MonitorReturned /\ Len(cm_positions) >= 1) =>
        LET reason == cm_result[2]
            sector_ok == ~\E sector \in MonitorSectors : SectorExceeds(sector)
            too_high == {i \in 1..Len(cm_positions) : cm_existing[i] = "high"}
        IN  /\ (~cm_result[1] /\ reason[1] = "correlation") =>
                   /\ sector_ok
                   /\ cm_new_prices = "ok"
                   /\ \E i \in too_high : cm_positions[i].symbol = reason[2]
            /\ (sector_ok /\ (cm_new_prices # "ok" \/ too_high = {})) =>
                   cm_result[1]

\* the candidate's history could not be fetched while a held position would
\* have correlated too highly: approved
WitnessC19 ==
    /\ MonitorReturned
    /\ Len(cm_positions) = 2
    /\ cm_new_prices = "error"
    /\ cm_existing[1] = "high"
    /\ cm_result[1]

\* the result of the call had every correlation been computed and found
\* acceptable
CleanApproval ==
    check_new_signal(cm_signal, cm_positions, cm_portfolio_value, "ok",
                     [i \in 1..Len(cm_positions) |-> "low"])

\* the correlation check ran and could evaluate nothing: the candidate's
\* history is short, or no held position overlaps it in 30 closes
NotEvaluated ==
    /\ Len(cm_positions) >= MIN_POSITIONS_FOR_CORRELATION
    /\ ~\E sector \in MonitorSectors : SectorExceeds(sector)
    /\ \/ cm_new_prices = "short"
       \/ /\ cm_new_prices = "ok"
          /\ \A i \in 1..Len(cm_positions) : cm_existing[i] = "nooverlap"

\* C20: an approval given only because the correlation could not be
\* evaluated (fewer than 30 overlapping price points) is distinguishable, in
\* the result that check_new_signal returns, from a clean approval in which
\* the correlation was computed and found acceptable.
ClaimC20 ==
    (MonitorReturned /\ NotEvaluated /\ cm_result[1]) => cm_result # CleanApproval


(***************************************************************************)
(* Properties of check_exit_conditions.                                    *)
(***************************************************************************)
ExitReturned == ex_result # <<>>

\* the profit or loss of the position at the quote, in percent of the
\* average entry price, times the average entry price
ExitPnl == (ex_quote - ex_position.avg_entry_price) * 100

\* C21: check_exit_conditions returns (True, 'stop_loss') whenever the quote
\* is at or below the average entry price by the stop-loss percentage,
\* (True, 'take_profit') whenever it is at or above it by the take-profit
\* percentage, and (False, None) when the price is inside the band and no
\* technical exit applies.
ClaimC21 ==
    (ExitReturned /\ ex_quote # NONE) =>
        LET avg == ex_position.avg_entry_price
            stop == ExitPnl <= (0 - DEFAULT_STRATEGY_PARAMS.stop_loss_pct) * avg
            take == ExitPnl >= DEFAULT_STRATEGY_PARAMS.take_profit_pct * avg
        IN  /\ stop => ex_result = <<TRUE, "stop_loss">>
            /\ take => ex_result = <<TRUE, "take_profit">>
            /\ (~stop /\ ~take /\ ~ex_technical) => ex_result = <<FALSE, "none">>


(***************************************************************************)
(* Properties of RateLimiter.acquire.                                      *)
(***************************************************************************)
\* the callers whose acquire is at a given place
CallersAt(place) == {c \in Callers : rl_pc # <<>> /\ rl_pc[c] = place}

\* C22: acquire never drops a call, for every max_calls >= 0: a call that
\* has begun is asleep until capacity frees or has returned, and every call
\* that returned recorded one timestamp; no call ends in any other way.
ClaimC22 ==
    /\ CallersAt("raised") = {}
    /\ rl_begun = Len(rl_acquired) + Cardinality(CallersAt("sleeping"))

\* the acquisitions completed in the window of length period that starts at t
CompletedIn(t) ==
    {i \in 1..Len(rl_acquired) : t <= rl_acquired[i] /\ rl_acquired[i] < t + rl_period}

\* C23: for any interleaving of the callers of one limiter, no more than
\* max_calls acquisitions complete within any window of length period.
ClaimC23 ==
    rl_acquired # <<>> =>
        \A t \in 0..MaxTime : Cardinality(CompletedIn(t)) <= rl_max_calls


(***************************************************************************)
(* The order of the phases of daily_trading_loop.                          *)
(***************************************************************************)
\* the places of the cycle in the order of the code
Phases ==
    <<"market", "portfolio", "rebalance_check", "rebalance", "scan_momentum",
      "scan_news", "filter", "filter_loop", "execute", "exits", "analyze",
      "done", "settled">>

PhaseIndex(phase) == CHOOSE i \in 1..Len(Phases) : Phases[i] = phase

\* a step from one place to another that keeps the order: to the next
\* place, over the rebalance orders when no rebalancing is due, over the
\* filter loop when there is no slot, to the end when the market is closed,
\* or out of the cycle with the exception of a failed call
PhaseStep(from, to) ==
    \/ to = "raised" /\ from \notin {"done", "raised", "settled"}
    \/ from = "raised" /\ to = "settled"
    \/ /\ from # "raised"
       /\ to # "raised"
       /\ \/ PhaseIndex(to) = PhaseIndex(from) + 1
          \/ <<from, to>> \in {<<"market", "done">>,
                               <<"rebalance_check", "scan_momentum">>,
                               <<"filter", "execute">>}

\* C24: a cycle goes through its phases once each in the order snapshot,
\* rebalance check and rebalance orders, momentum scan and news scan, risk
\* filter, entry orders, exits, analysis: no step goes back or repeats a
\* phase, the filter starts only when the last producer has returned, a
\* rebalance order is submitted only in the rebalance loop and an entry
\* order only in the entry loop, so every rebalance order precedes every
\* entry order.
TheoremC24 ==
    /\ [][/\ pc' # pc => PhaseStep(pc, pc')
          /\ pc' = "filter" => pc \in {"scan_news", "filter"}
          /\ orders' # orders =>
                 /\ Len(orders') = Len(orders) + 1
                 /\ SubSeq(orders', 1, Len(orders)) = orders
                 /\ orders'[Len(orders')].kind = "rebalance" => pc = "rebalance"
                 /\ orders'[Len(orders')].kind = "entry" => pc = "execute"]_vars
    /\ [](\A i \in 1..Len(orders) : \A j \in 1..Len(orders) :
              (orders[i].kind = "rebalance" /\ orders[j].kind = "entry") => i < j)

\* a cycle that ended in success after submitting rebalance and entry orders
WitnessC24 ==
    /\ pc = "done"
    /\ status = "success"
    /\ \E i \in 1..Len(orders) : orders[i].kind = "rebalance"
    /\ \E j \in 1..Len(orders) : orders[j].kind = "entry"


(***************************************************************************)
(* Properties of should_rebalance.                                         *)
(***************************************************************************)
\* the market value held of a symbol, 0 when it is not held
HeldValue(symbol) ==
    LET at == {i \in 1..Len(rb_positions) : rb_positions[i].symbol = symbol}
    IN  IF at = {} THEN 0 ELSE rb_positions[CHOOSE i \in at : TRUE].market_value

\* the drift of a defensive symbol from its target, as the rational number
\* of percentage points
Drift(symbol, target_pct) ==
    LET share == Rat(HeldValue(symbol) * 100, rb_portfolio.portfolio_value)
        diff == RatSub(share, <<target_pct, 1>>)
    IN  IF RatLt(diff, <<0, 1>>) THEN RatSub(<<0, 1>>, diff) ELSE diff

Drifted ==
    \/ RatLt(<<5, 1>>, Drift("VTI", 15))
    \/ RatLt(<<5, 1>>, Drift("VGK", 8))
    \/ RatLt(<<5, 1>>, Drift("GLD", 7))

ActiveSymbols ==
    LET active == SelectSeq(positions, LAMBDA p : p.symbol \notin {"VTI", "VGK", "GLD"})
    IN  [i \in 1..Len(active) |-> active[i].symbol]

\* the exit loop has been left
ExitsLeft ==
    \/ pc \in {"analyze", "done"}
    \/ status \in {"success", "analyze_daily_performance"}

\* C26: the exit phase evaluates no position of VTI, VGK or GLD and closes
\* none; it evaluates the active positions of the snapshot in order, none
\* twice; and when the loop is left, whatever failed on the way, every
\* active position of the snapshot has been evaluated exactly once.
TheoremC26 ==
    /\ \A i \in 1..Len(exit_checks) : exit_checks[i] \notin {"VTI", "VGK", "GLD"}
    /\ closed \cap {"VTI", "VGK", "GLD"} = {}
    /\ Len(exit_checks) <= Len(ActiveSymbols)
    /\ exit_checks = SubSeq(ActiveSymbols, 1, Len(exit_checks))
    /\ ExitsLeft => exit_checks = ActiveSymbols

\* the loop was left after evaluating several active positions of a
\* snapshot that also holds a defensive position
WitnessC26 ==
    /\ pc = "analyze"
    /\ Len(exit_checks) >= 2
    /\ \E i \in 1..Len(positions) : positions[i].symbol = "VTI"


(***************************************************************************)
(* Properties of the price-history cache.                                  *)
(***************************************************************************)
\* C27: once a ticker's series has been fetched, a request for it made less
\* than one day after the fetch is served from the cache without a call of
\* the provider, and a request made a day or more after it fetches again.
ClaimC27 ==
    (ph_last # <<>> /\ ph_last[1].fetched # NONE) =>
        LET age == ph_last[1].at - ph_last[1].fetched
        IN  /\ age < DayTicks => ~ph_last[1].external
            /\ age >= DayTicks => ph_last[1].external


(***************************************************************************)
(* The execution summary of the cycle.                                     *)
(***************************************************************************)
\* C28: orders_executed equals the number of orders the broker accepted in
\* the cycle, rebalance orders and entry orders alike, whatever happens in
\* the logging steps that follow a submission.
ClaimC28 ==
    execution_summary.orders_executed
        = Len(OrdersOf("rebalance")) + Len(OrdersOf("entry"))

\* C29: in one cycle the approved list holds no two signals of the same
\* ticker, and at most one entry order is submitted per ticker, also when
\* the momentum scanner and the news strategy both emit a BUY for it.
ClaimC29 ==
    /\ \A i \in 1..Len(filtered_signals) : \A j \in 1..Len(filtered_signals) :
          filtered_signals[i].ticker = filtered_signals[j].ticker => i = j
    /\ \A i \in 1..Len(OrdersOf("entry")) : \A j \in 1..Len(OrdersOf("entry")) :
          OrdersOf("entry")[i].symbol = OrdersOf("entry")[j].symbol => i = j

\* the rebalancing signal of a symbol
SignalOf(symbol) ==
    SelectSeq(rebalance_signals, LAMBDA sig : sig.ticker = symbol)[1]

\* C30: the quantity of every rebalancing order (in hundredths of a share),
\* at the real market price of its symbol, is at most
\* |target_value - current_value|, up to the rounding of the quantity to
\* 0.01 share, and at most the portfolio value, also for a defensive symbol
\* that is not held and whose quote cannot be fetched.
ClaimC30 ==
    \A i \in 1..Len(OrdersOf("rebalance")) :
        LET order == OrdersOf("rebalance")[i]
            signal == SignalOf(order.symbol)
            real_price == LatestClose(order.symbol)
        IN  /\ order.qty * real_price
                   <= 100 * Abs(signal.target_value - signal.current_value) + real_price
            /\ order.qty * real_price <= 100 * portfolio.portfolio_value

====
